---- MODULE Spec2Model ----
(***************************************************************************)
(* Marbleland: the streamed mission .zip (generateZip, MissionZipStream).  *)
(*                                                                         *)
(* Byte buffers are sequences of naturals 0..255.  JavaScript offsets are  *)
(* 0-based, so byte offset i of a buffer b is b[i + 1].  File names are    *)
(* sequences of code points; they become bytes only through utf8encode.    *)
(***************************************************************************)
EXTENDS Integers, Sequences, FiniteSets, TLC

(* ----------------------------- bounds --------------------------------- *)

\* Longest mission list handed to MissionZipStream.
MaxMissions == 2

\* Most invocations of _read on one stream.
MaxReads == 2

\* Most dependencies declared by all missions of one list together.
MaxTotalDeps == 3

(* ------------------------- integers and bytes ------------------------- *)

Min(a, b) == IF a < b THEN a ELSE b

Range(s) == {s[k] : k \in 1..Len(s)}

RECURSIVE Flatten(_)
\* Concatenation of a sequence of buffers.
Flatten(ss) == IF ss = <<>> THEN <<>> ELSE Head(ss) \o Flatten(Tail(ss))

RECURSIVE SumLen(_)
\* Total byteLength of a sequence of buffers.
SumLen(ss) == IF ss = <<>> THEN 0 ELSE Len(Head(ss)) + SumLen(Tail(ss))

\* DataView.setUint16(_, n, true): two bytes, little-endian, n taken mod 2^16.
U16(n) == <<n % 256, (n \div 256) % 256>>

\* DataView.setUint32(_, n, true): four bytes, little-endian, n taken mod 2^32.
U32(n) == <<n % 256, (n \div 256) % 256, (n \div 65536) % 256, (n \div 16777216) % 256>>

\* DataView.setUint32(_, n, false): four bytes, big-endian.
U32BE(n) == <<(n \div 16777216) % 256, (n \div 65536) % 256, (n \div 256) % 256, n % 256>>

\* DataView.getUint16(i, true)
getUint16(b, i) == b[i + 1] + 256 * b[i + 2]

\* DataView.getUint32(i, true)
getUint32(b, i) == b[i + 1] + 256 * b[i + 2] + 65536 * b[i + 3] + 16777216 * b[i + 4]

\* DataView.setUint32(i, n, true) on a copy of b.
setUint32(b, i, n) ==
    [k \in 1..Len(b) |-> IF k > i /\ k <= i + 4 THEN U32(n)[k - i] ELSE b[k]]

\* Uint8Array.prototype.slice(start, end) for 0 <= start: both ends clamp to the length.
slice(b, start, end) == SubSeq(b, Min(start, Len(b)) + 1, Min(end, Len(b)))

(* ------------------------------ strings ------------------------------- *)

\* String.prototype.toLowerCase on one code point (ASCII and Latin-1 letters).
lowerChar(c) ==
    IF (c >= 65 /\ c <= 90) \/ (c >= 192 /\ c <= 222 /\ c # 215) THEN c + 32 ELSE c

toLowerCase(s) == [k \in 1..Len(s) |-> lowerChar(s[k])]

RECURSIVE utf8encode(_)
\* The UTF-8 bytes of a string of code points below 0x800.
utf8encode(s) ==
    IF s = <<>> THEN <<>>
    ELSE (IF Head(s) < 128 THEN <<Head(s)>>
          ELSE <<192 + (Head(s) \div 64), 128 + (Head(s) % 64)>>) \o utf8encode(Tail(s))

\* Buffer.byteLength(str): the length of the string's UTF-8 encoding.
byteLength(s) == Len(utf8encode(s))

(* ------------------- missions and their dependencies ------------------ *)

\* The raw dependency strings missions declare: "A", "a" and "d/É".
Dependencies == {<<65>>, <<97>>, <<100, 47, 201>>}

\* Dependencies whose file may be absent from a mission's directories: "a".
MayBeMissing == {<<97>>}

\* Default assets of the base game (lower-case canonical paths): "d/é".
structureMBGSet == {<<100, 47, 233>>}

\* Default assets of PlatinumQuest (lower-case canonical paths): "a".
structurePQSet == {<<97>>}

\* The exclusion modes of generateZip's parameter `assuming`.
Assumings == {"none", "gold", "platinumquest"}

\* Mission.normalizeDependency: the canonical, case-normalized relative path.
normalizeDependency(mission, dependency) == toLowerCase(dependency)

\* The value findPath resolves to when the file is on no base directory.
null == <<>>

\* Mission.findPath: the full path of the dependency's file, or null.
findPath(mission, dependency) ==
    IF dependency \in mission.missing THEN null ELSE <<mission.id, dependency>>

\* The bytes fs.createReadStream(fullPath) delivers: every mission's files
\* carry the mission's id, so that the files of two missions differ.
fileData(fullPath) ==
    IF Len(fullPath[2]) = 1 THEN <<fullPath[1], fullPath[2][1]>> ELSE <<fullPath[1]>>

\* Mission.fileSizes, aligned with Mission.dependencies (0 for a file not on disk).
fileSizesOf(mission) ==
    [j \in 1..Len(mission.dependencies) |->
        IF findPath(mission, mission.dependencies[j]) = null THEN 0
        ELSE Len(fileData(findPath(mission, mission.dependencies[j])))]

\* The dependency lists of at most n entries.
DepSeqs(n) == UNION {[1..l -> Dependencies] : l \in 0..n}

\* One mission's declaration: its dependencies and the ones missing on disk.
MissionDecls(n) ==
    {m \in [dependencies : DepSeqs(n), missing : SUBSET MayBeMissing] :
        m.missing \subseteq Range(m.dependencies)}

RECURSIVE DeclLists(_, _)
\* The lists of exactly k declarations that hold at most t dependencies together.
DeclLists(k, t) ==
    IF k = 0 THEN {<<>>}
    ELSE UNION {{<<m>> \o rest : rest \in DeclLists(k - 1, t - Len(m.dependencies))} :
                    m \in MissionDecls(t)}

\* The Mission objects of a list of declarations; a mission's id is its position.
MissionsOf(decls) ==
    [i \in 1..Len(decls) |->
        [id |-> i,
         dependencies |-> decls[i].dependencies,
         missing |-> decls[i].missing,
         fileSizes |-> fileSizesOf([id |-> i, dependencies |-> decls[i].dependencies,
                                    missing |-> decls[i].missing])]]

\* Every mission list within the bounds.
MissionLists ==
    {MissionsOf(decls) : decls \in UNION {DeclLists(k, MaxTotalDeps) : k \in 0..MaxMissions}}

(* ---------------- the per-mission archive builder (jszip) ------------- *)

\* Whether the builder's file table has an entry of this name.
hasEntry(files, name) == \E k \in 1..Len(files) : files[k].name = name

\* files[name] = entry: an existing key keeps its place, a new one comes last.
putEntry(files, entry) ==
    IF hasEntry(files, entry.name)
    THEN [k \in 1..Len(files) |-> IF files[k].name = entry.name THEN entry ELSE files[k]]
    ELSE Append(files, entry)

\* The folder a path lies in ("" when it lies in none).
parentFolder(path) ==
    LET p == IF path # <<>> /\ path[Len(path)] = 47 THEN SubSeq(path, 1, Len(path) - 1)
             ELSE path
        slashes == {k \in 1..Len(p) : p[k] = 47}
        last == IF slashes = {} THEN 0 ELSE CHOOSE k \in slashes : \A l \in slashes : l <= k
    IN  IF last > 1 THEN SubSeq(p, 1, last - 1) ELSE <<>>

RECURSIVE fileAdd(_, _, _, _)
\* jszip's fileAdd with createFolders: the folders of the path get entries first.
fileAdd(files, name, data, dir) ==
    LET parent == parentFolder(name)
        folder == Append(parent, 47)
        withFolders == IF parent # <<>> /\ ~hasEntry(files, folder)
                       THEN fileAdd(files, folder, <<>>, TRUE)
                       ELSE files
    IN  putEntry(withFolders, [name |-> name, dir |-> dir, data |-> data])

\* zip.file(name, stream)
zipFile(files, name, data) == fileAdd(files, name, data, FALSE)

RECURSIVE crc32(_)
\* Stand-in for the CRC-32 of the data: a checksum of its bytes (the combiner never reads it).
crc32(data) == IF data = <<>> THEN 0 ELSE (Head(data) + 31 * crc32(Tail(data))) % 65536

\* The fields shared by an entry's local file header and central directory header.
entryHeader(entry) ==
    LET encoded == utf8encode(entry.name)
    IN  U16(10)                                                 \* version needed
        \o U16(IF Len(encoded) # Len(entry.name) THEN 2048 ELSE 0) \* flags: UTF-8 name
        \o U16(0)                                               \* compression: STORE
        \o U16(0) \o U16(33)                                    \* DOS time, DOS date
        \o U32(crc32(entry.data))
        \o U32(Len(entry.data)) \o U32(Len(entry.data))         \* compressed, uncompressed
        \o U16(Len(encoded)) \o U16(0)                          \* name length, extra length

\* Local file header, file name and data of an entry.
fileRecord(entry) ==
    <<80, 75, 3, 4>> \o entryHeader(entry) \o utf8encode(entry.name) \o entry.data

\* Central directory header and file name of an entry whose local header is at `offset`.
dirRecord(entry, offset) ==
    <<80, 75, 1, 2>> \o U16(20) \o entryHeader(entry)
        \o U16(0) \o U16(0) \o U16(0)                           \* comment length, disk, internal
        \o U32(IF entry.dir THEN 16 ELSE 0)                     \* external attributes
        \o U32(offset) \o utf8encode(entry.name)

\* End of central directory record, without comment.
endRecord(count, dirLength, localDirLength) ==
    <<80, 75, 5, 6>> \o U16(0) \o U16(0) \o U16(count) \o U16(count)
        \o U32(dirLength) \o U32(localDirLength) \o U16(0)

RECURSIVE zipParts(_, _, _, _)
\* The archive of the entries from the k-th on, after `locals` and `dirs`.
zipParts(files, k, locals, dirs) ==
    IF k > Len(files)
    THEN locals \o dirs \o endRecord(Len(files), Len(dirs), Len(locals))
    ELSE zipParts(files, k + 1, locals \o fileRecord(files[k]),
                  dirs \o dirRecord(files[k], Len(locals)))

\* zip.generateAsync({ type: 'uint8array' })
generateAsync(files) == zipParts(files, 1, <<>>, <<>>)

(* ------------------------------ state --------------------------------- *)

VARIABLES
    missions,                   \* MissionZipStream.missions (after the constructor's filter)
    assuming,                   \* MissionZipStream.assuming
    expectedSize,               \* MissionZipStream.expectedSize (-1: not yet set)
    counted,                    \* history: the (mission, index, path) triples init added
    gpc,                        \* where the generator is suspended
    gi,                         \* generateZip: how many missions the for loop has taken
    generated,                  \* generateZip: `generated` of the mission in progress
    magicAt,                    \* generateZip: `i` of the scan, where the magic matched
    gc,                         \* generateZip: how many central directories were yielded
    centralDirectories,         \* generateZip: centralDirectories
    centralDirectorySizeTotal,  \* generateZip: centralDirectorySizeTotal
    mainPartLength,             \* generateZip: mainPartLength
    includedFiles,              \* generateZip: includedFiles
    yielded,                    \* history: the chunks yielded so far, each with its yield
    registered,                 \* history: the zip.file calls so far
    builtCentral,               \* history: the central directories as the builder made them
    fault,                      \* which call of the Archive Builder goes wrong, and how
    builds,                     \* history: how many times generateAsync was called
    headers,                    \* the headers connectToResponse has set on the response
    piped,                      \* whether this.pipe(res) has been called
    reading,                    \* the Readable's state.reading
    reads,                      \* the invocations of _read so far, each with its position
    requests,                   \* the generator's queue of next() calls, by invocation
    resolved,                   \* results of next() whose `await` has not yet resumed
    pushed,                     \* history: the calls of this.push, with what each returned
    stream,                     \* the Readable: "open", "ended" or "errored"
    stopped,                    \* whether the consumer has stopped pulling
    nextCalls,                  \* history: how many times generator.next() was called
    walk,                       \* init's loop over the missions, step by step
    scan,                       \* the backward scan of one sub-archive's end record
    util,                       \* Util's static state and the callers of readdirCached
    store,                      \* a KeyValueStore, its writes in flight and its file
    db,                         \* the missions collection and the download requests
    api                         \* ongoingUploads and the requests to the upload and submit handlers

\* The variables of generateZip and of MissionZipStream.init.
genVars == <<missions, assuming, expectedSize, counted, gpc, gi, generated, magicAt, gc,
             centralDirectories, centralDirectorySizeTotal, mainPartLength, includedFiles,
             yielded, registered, builtCentral, fault, builds>>

\* The variables of the Readable and of the response it is piped to.
streamVars == <<headers, piped, reading, reads, requests, resolved, pushed, stream,
                stopped, nextCalls>>

\* The state outside the stream of one response.
otherVars == <<walk, scan, util, store, db, api>>

\* The state outside the stream besides `walk`.
besides_walk == <<scan, util, store, db, api>>

\* The state outside the stream besides `scan`.
besides_scan == <<walk, util, store, db, api>>

\* The state outside the stream besides `util`.
besides_util == <<walk, scan, store, db, api>>

\* The state outside the stream besides `store`.
besides_store == <<walk, scan, util, db, api>>

\* The state outside the stream besides `db`.
besides_db == <<walk, scan, util, store, api>>

\* The state outside the stream besides `api`.
besides_api == <<walk, scan, util, store, db>>

vars == <<genVars, streamVars, otherVars>>

(* --------------------------- program constants ------------------------ *)

\* 0x504b0506, the end of central directory magic number.
EndMagic == 1347093766

\* 0x1e, the size of a local file header.
LocalHeaderSize == 30

\* 0x2e, the size of a central directory file header.
CentralHeaderSize == 46

\* 0x16, the length of the end of central directory record.
EndRecordSize == 22

(* ------------------------------ generateZip --------------------------- *)

\* Mutant of skipsDependency: the includedFiles.has check is left out.
skipsDependency_NoHas(included, mode, normalized) ==
    \/ mode = "gold" /\ toLowerCase(normalized) \in structureMBGSet
    \/ mode = "platinumquest" /\ toLowerCase(normalized) \in structurePQSet

\* Mutant of skipsDependency: the base game's default assets are not skipped.
skipsDependency_NoGold(included, mode, normalized) ==
    \/ normalized \in included
    \/ mode = "platinumquest" /\ toLowerCase(normalized) \in structurePQSet

\* generateZip's "Skip default assets": whether the dependency is passed over.
skipsDependency(included, mode, normalized) ==
    \/ normalized \in included
    \/ mode = "gold" /\ toLowerCase(normalized) \in structureMBGSet
    \/ mode = "platinumquest" /\ toLowerCase(normalized) \in structurePQSet

RECURSIVE dependencyLoop_AddsMissing(_, _, _, _, _, _)
\* Mutant of dependencyLoop: a dependency whose file is missing is added to
\* the included files all the same.
dependencyLoop_AddsMissing(mission, mode, j, files, included, calls) ==
    IF j > Len(mission.dependencies)
    THEN [files |-> files, included |-> included, calls |-> calls]
    ELSE LET dependency == mission.dependencies[j]
             normalized == normalizeDependency(mission, dependency)
             fullPath == findPath(mission, dependency)
         IN  IF skipsDependency(included, mode, normalized)
             THEN dependencyLoop_AddsMissing(mission, mode, j + 1, files, included, calls)
             ELSE IF fullPath # null
             THEN dependencyLoop_AddsMissing(mission, mode, j + 1,
                      zipFile(files, normalized, fileData(fullPath)),
                      included \cup {normalized},
                      Append(calls, [mission |-> mission.id, name |-> normalized,
                                     fullPath |-> fullPath]))
             ELSE dependencyLoop_AddsMissing(mission, mode, j + 1, files,
                      included \cup {normalized}, calls)

RECURSIVE dependencyLoop(_, _, _, _, _, _)
\* The loop over mission.dependencies from the j-th on: the builder's files, the
\* included files and the zip.file calls it ends with.
dependencyLoop(mission, mode, j, files, included, calls) ==
    IF j > Len(mission.dependencies)
    THEN [files |-> files, included |-> included, calls |-> calls]
    ELSE LET dependency == mission.dependencies[j]
             normalized == normalizeDependency(mission, dependency)
             fullPath == findPath(mission, dependency)
         IN  IF skipsDependency(included, mode, normalized)
             THEN dependencyLoop(mission, mode, j + 1, files, included, calls)
             ELSE IF fullPath # null
             THEN dependencyLoop(mission, mode, j + 1,
                      zipFile(files, normalized, fileData(fullPath)),
                      included \cup {normalized},
                      Append(calls, [mission |-> mission.id, name |-> normalized,
                                     fullPath |-> fullPath]))
             ELSE dependencyLoop(mission, mode, j + 1, files, included, calls)

\* Mutant of removeDirs: the directory entries stay in the archive.
removeDirs_Keep(files) == files

\* "Remove all directory entries"
removeDirs(files) == SelectSeq(files, LAMBDA e : ~e.dir)

\* dataView.getUint32(i, false) === 0x504b0506: the four bytes at offset i, read
\* big-endian, are the magic number (compared byte by byte, as the big-endian
\* reading of four bytes is one-to-one).
matchesMagic(buf, i) == SubSeq(buf, i + 1, i + 4) = U32BE(EndMagic)

RECURSIVE scanMagic(_, _)
\* The backward scan from offset i: the first offset whose four bytes, read
\* big-endian, are the magic number; -1 when the loop ends without a match.
scanMagic(buf, i) ==
    IF i < 0 THEN -1
    ELSE IF matchesMagic(buf, i) THEN i
    ELSE scanMagic(buf, i - 1)

RECURSIVE fixOffsets(_, _, _)
\* "Fix the offset local header values in the central directory file entries"
fixOffsets(centralDirectory, index, mainLen) ==
    IF index >= Len(centralDirectory) THEN centralDirectory
    ELSE LET offsetLocalHeader == getUint32(centralDirectory, index + 42) + mainLen
             fileNameLen == getUint16(centralDirectory, index + 28)
             extraFieldLen == getUint16(centralDirectory, index + 30)
             fileCommentLen == getUint16(centralDirectory, index + 32)
         IN  fixOffsets(setUint32(centralDirectory, index + 42, offsetLocalHeader),
                        index + CentralHeaderSize + fileNameLen + extraFieldLen + fileCommentLen,
                        mainLen)

\* Mutant of reversedMission: the missions are taken in the order supplied.
reversedMission_Forward(k) == missions[k]

\* The k-th mission of missions.slice().reverse().
reversedMission(k) == missions[Len(missions) - k + 1]

\* The builder's k-th call works as it should.
NoFault == [kind |-> "none", at |-> 0]

\* The ways one call of the builder can go wrong: generateAsync rejects, or it
\* resolves to a buffer that ends before the end of central directory record.
FaultsOf(n) == [kind : {"rejects", "truncated"}, at : 1..n]

\* Whether `await zip.generateAsync(...)` throws in the k-th pass of the loop.
builderRejects(k) == fault.kind = "rejects" /\ fault.at = k

\* What `await zip.generateAsync(...)` resolves to in the k-th pass of the loop.
builderOutput(k, archive) ==
    IF fault.kind = "truncated" /\ fault.at = k
    THEN slice(archive, 0, Len(archive) - EndRecordSize)
    ELSE archive

RECURSIVE missionLoop(_, _, _)
\* The for loop over the reversed missions from the k-th on, up to its next
\* yield: a mission whose archive shows no magic number is passed over.
missionLoop(k, included, calls) ==
    IF k > Len(missions)
    THEN [yields |-> FALSE, throws |-> FALSE, k |-> k, included |-> included,
          calls |-> calls, generated |-> <<>>, i |-> -1]
    ELSE LET deps == dependencyLoop(reversedMission(k), assuming, 1, <<>>, included, calls)
             archive == builderOutput(k, generateAsync(removeDirs(deps.files)))
             i == scanMagic(archive, Len(archive) - 4)
         IN  IF builderRejects(k)
             THEN [yields |-> FALSE, throws |-> TRUE, k |-> k, included |-> deps.included,
                   calls |-> deps.calls, generated |-> <<>>, i |-> -1]
             ELSE IF i >= 0
             THEN [yields |-> TRUE, throws |-> FALSE, k |-> k, included |-> deps.included,
                   calls |-> deps.calls, generated |-> archive, i |-> i]
             ELSE missionLoop(k + 1, deps.included, deps.calls)

\* Mutant of endBuffer: the total-entries field is left zero.
endBuffer_NoTotal(included, dirTotal, mainLen) ==
    U32BE(EndMagic) \o U16(0) \o U16(0)
        \o U16(Cardinality(included)) \o U16(0)
        \o U32(dirTotal) \o U32(mainLen) \o U16(0)

\* Mutant of endBuffer: central directory size and offset change places.
endBuffer_Swapped(included, dirTotal, mainLen) ==
    U32BE(EndMagic) \o U16(0) \o U16(0)
        \o U16(Cardinality(included)) \o U16(Cardinality(included))
        \o U32(mainLen) \o U32(dirTotal) \o U16(0)

\* Mutant of endBuffer: the magic number is written little-endian.
endBuffer_LittleMagic(included, dirTotal, mainLen) ==
    U32(EndMagic) \o U16(0) \o U16(0)
        \o U16(Cardinality(included)) \o U16(Cardinality(included))
        \o U32(dirTotal) \o U32(mainLen) \o U16(0)

\* The end of central directory record generateZip writes itself.
endBuffer(included, dirTotal, mainLen) ==
    U32BE(EndMagic) \o U16(0) \o U16(0)
        \o U16(Cardinality(included)) \o U16(Cardinality(included))
        \o U32(dirTotal) \o U32(mainLen) \o U16(0)

\* Mutant of YieldDirectories: the central directories go out last one first.
YieldDirectories_Reversed(c, dirs, dirTotal, mainLen, included) ==
    IF c < Len(dirs)
    THEN /\ gpc' = "central"
         /\ gc' = c + 1
         /\ yielded' = Append(yielded, [kind |-> "central", bytes |-> dirs[Len(dirs) - c]])
    ELSE /\ gpc' = "end"
         /\ gc' = c
         /\ yielded' = Append(yielded, [kind |-> "end",
                                        bytes |-> endBuffer(included, dirTotal, mainLen)])

\* From the loop over centralDirectories, c of them yielded: the next yield.
YieldDirectories(c, dirs, dirTotal, mainLen, included) ==
    IF c < Len(dirs)
    THEN /\ gpc' = "central"
         /\ gc' = c + 1
         /\ yielded' = Append(yielded, [kind |-> "central", bytes |-> dirs[c + 1]])
    ELSE /\ gpc' = "end"
         /\ gc' = c
         /\ yielded' = Append(yielded, [kind |-> "end",
                                        bytes |-> endBuffer(included, dirTotal, mainLen)])

\* The generator runs from the head of the mission loop to its next yield.
RunToYield(k, dirs, dirTotal, mainLen, built) ==
    LET loop == missionLoop(k, includedFiles, registered)
        startOfCentralDirectoryOffset == getUint32(loop.generated, loop.i + 16)
    IN  /\ includedFiles' = loop.included
        /\ registered' = loop.calls
        /\ centralDirectories' = dirs
        /\ centralDirectorySizeTotal' = dirTotal
        /\ mainPartLength' = mainLen
        /\ builtCentral' = built
        /\ gi' = loop.k
        /\ generated' = loop.generated
        /\ magicAt' = loop.i
        /\ builds' = builds + Min(loop.k, Len(missions)) - k + 1
        /\ IF loop.throws
           THEN /\ gpc' = "threw"
                /\ gc' = gc
                /\ yielded' = yielded
           ELSE IF loop.yields
           THEN /\ gpc' = "main"
                /\ gc' = gc
                /\ yielded' = Append(yielded,
                       [kind |-> "main",
                        bytes |-> slice(loop.generated, 0, startOfCentralDirectoryOffset)])
           ELSE YieldDirectories(0, dirs, dirTotal, mainLen, loop.included)

(* ------------------------ MissionZipStream.init ----------------------- *)

\* init's "Skip default assets": whether the dependency adds nothing to the size.
skipsSize(included, mode, normalized) ==
    \/ normalized \in included
    \/ mode = "gold" /\ toLowerCase(normalized) \in structureMBGSet
    \/ mode = "platinumquest" /\ toLowerCase(normalized) \in structurePQSet

RECURSIVE sizeOfDependencies(_, _, _, _, _)
\* init's loop over mission.dependencies from the j-th on (j counts from 1 here).
sizeOfDependencies(mission, j, included, totalSize, adds) ==
    IF j > Len(mission.dependencies)
    THEN [included |-> included, totalSize |-> totalSize, adds |-> adds]
    ELSE LET normalized == normalizeDependency(mission, mission.dependencies[j])
         IN  IF skipsSize(included, assuming, normalized)
             THEN sizeOfDependencies(mission, j + 1, included, totalSize, adds)
             ELSE sizeOfDependencies(mission, j + 1, included \cup {normalized},
                      totalSize + mission.fileSizes[j]
                                + LocalHeaderSize + CentralHeaderSize
                                + byteLength(normalized) * 2,
                      adds \cup {[mission |-> mission.id, index |-> j, name |-> normalized]})

RECURSIVE sizeOfMissions(_, _, _, _)
\* init's loop over the missions, from this.missions[i - 1] down to the first.
sizeOfMissions(i, included, totalSize, adds) ==
    IF i < 1
    THEN [included |-> included, totalSize |-> totalSize + EndRecordSize, adds |-> adds]
    ELSE LET m == sizeOfDependencies(missions[i], 1, included, totalSize, adds)
         IN  sizeOfMissions(i - 1, m.included, m.totalSize, m.adds)

\* async init(): creates the generator and precomputes the final size of the zip.
init ==
    /\ gpc = "unset"
    /\ gpc' = "start"
    /\ LET sizes == sizeOfMissions(Len(missions), {}, 0, {})
       IN  /\ expectedSize' = sizes.totalSize
           /\ counted' = sizes.adds
    /\ UNCHANGED <<missions, assuming, gi, generated, magicAt, gc, centralDirectories,
                   centralDirectorySizeTotal, mainPartLength, includedFiles, yielded,
                   registered, builtCentral, fault, builds>>

(* ----------------------- generator.next(), by position ---------------- *)

\* The first next(): the generator runs from its start to its first yield.
NextFromStart ==
    /\ gpc = "start"
    /\ RunToYield(1, <<>>, 0, 0, <<>>)
    /\ UNCHANGED <<missions, assuming, expectedSize, counted, fault>>

\* Mutant of NextAfterMain: mainPartLength is advanced before the offsets are fixed.
NextAfterMain_OwnLength ==
    /\ gpc = "main"
    /\ LET startOfCentralDirectoryOffset == getUint32(generated, magicAt + 16)
           mainPart == slice(generated, 0, startOfCentralDirectoryOffset)
           centralDirectory == slice(generated, startOfCentralDirectoryOffset, magicAt)
       IN  RunToYield(gi + 1,
                      Append(centralDirectories,
                             fixOffsets(centralDirectory, 0, mainPartLength + Len(mainPart))),
                      centralDirectorySizeTotal + Len(centralDirectory),
                      mainPartLength + Len(mainPart),
                      Append(builtCentral, centralDirectory))
    /\ UNCHANGED <<missions, assuming, expectedSize, counted, fault>>

\* next() while suspended at `yield mainPart.buffer`: the central directory of
\* the mission is kept and fixed, then the loop goes on to its next yield.
NextAfterMain ==
    /\ gpc = "main"
    /\ LET startOfCentralDirectoryOffset == getUint32(generated, magicAt + 16)
           mainPart == slice(generated, 0, startOfCentralDirectoryOffset)
           centralDirectory == slice(generated, startOfCentralDirectoryOffset, magicAt)
       IN  RunToYield(gi + 1,
                      Append(centralDirectories, fixOffsets(centralDirectory, 0, mainPartLength)),
                      centralDirectorySizeTotal + Len(centralDirectory),
                      mainPartLength + Len(mainPart),
                      Append(builtCentral, centralDirectory))
    /\ UNCHANGED <<missions, assuming, expectedSize, counted, fault>>

\* next() while suspended at `yield centralDirectory.buffer`.
NextAfterCentral ==
    /\ gpc = "central"
    /\ YieldDirectories(gc, centralDirectories, centralDirectorySizeTotal, mainPartLength,
                        includedFiles)
    /\ UNCHANGED <<missions, assuming, expectedSize, counted, gi, generated, magicAt,
                   centralDirectories, centralDirectorySizeTotal, mainPartLength,
                   includedFiles, registered, builtCentral, fault, builds>>

\* Mutant of NextAfterEnd: the generator starts over instead of returning.
NextAfterEnd_Restarts ==
    /\ gpc = "end"
    /\ gpc' = "start"
    /\ UNCHANGED <<missions, assuming, expectedSize, counted, gi, generated, magicAt, gc,
                   centralDirectories, centralDirectorySizeTotal, mainPartLength,
                   includedFiles, yielded, registered, builtCentral, fault, builds>>

\* next() while suspended at `yield endBuffer`: the generator returns.
NextAfterEnd ==
    /\ gpc = "end"
    /\ gpc' = "done"
    /\ UNCHANGED <<missions, assuming, expectedSize, counted, gi, generated, magicAt, gc,
                   centralDirectories, centralDirectorySizeTotal, mainPartLength,
                   includedFiles, yielded, registered, builtCentral, fault, builds>>

\* next() after the generator has returned or thrown: { done: true } once more.
NextWhenDone ==
    /\ gpc \in {"done", "threw"}
    /\ UNCHANGED genVars

(* ---------------------------- specification --------------------------- *)

\* No header set on the response yet.
NoHeaders == [type |-> "", disposition |-> <<>>, length |-> <<>>]

\* The Readable and the response before connectToResponse is called.
NewStream ==
    /\ headers = NoHeaders
    /\ piped = FALSE
    /\ reading = FALSE
    /\ reads = <<>>
    /\ requests = <<>>
    /\ resolved = <<>>
    /\ pushed = <<>>
    /\ stream = "open"
    /\ stopped = FALSE
    /\ nextCalls = 0

\* The fields of a MissionZipStream and its generator's locals before init.
NewGenerator ==
    /\ expectedSize = -1
    /\ counted = {}
    /\ gpc = "unset"
    /\ gi = 0
    /\ generated = <<>>
    /\ magicAt = -1
    /\ gc = 0
    /\ centralDirectories = <<>>
    /\ centralDirectorySizeTotal = 0
    /\ mainPartLength = 0
    /\ includedFiles = {}
    /\ yielded = <<>>
    /\ registered = <<>>
    /\ builtCentral = <<>>
    /\ builds = 0

\* init's loop before its first pass.
NewWalk == walk = [pc |-> "idle", i |-> 0, includedFiles |-> {}, totalSize |-> 0, run |-> 0]

\* No scan yet.
NewScan == scan = [pc |-> "idle", entries |-> 0, dirLength |-> 0, localDirLength |-> 0,
                   i |-> 0, startOfCentralDirectoryOffset |-> 0, threw |-> FALSE]

\* Util before any call: readdirCache = new Map(), no promise, no caller.
NewUtil == util = [readdirCache |-> <<>>, promises |-> <<>>, callers |-> <<>>,
                   readdirs |-> <<>>]

\* A KeyValueStore constructed on a path that does not exist, without defaults.
NewStore == store = [data |-> <<>>, needsSave |-> FALSE, saving |-> FALSE,
                     writing |-> <<>>, file |-> <<>>, written |-> 0, calls |-> 0]

\* The missions collection before any request, no mission downloaded yet.
NewDb == db = [missions |-> <<>>, before |-> <<>>, requests |-> <<>>]

\* The server before any upload: ongoingUploads = new Map(), no request.
NewApi == api = [ongoingUploads |-> {}, requests |-> <<>>]

\* The state outside the stream when nothing has used it yet.
NewOther == NewWalk /\ NewScan /\ NewUtil /\ NewStore /\ NewDb /\ NewApi

\* The state after new MissionZipStream(missions, assuming).
Init ==
    /\ missions \in MissionLists
    /\ assuming \in Assumings
    /\ fault = NoFault
    /\ NewGenerator
    /\ NewStream
    /\ NewOther

\* The generator alone, pulled by a consumer that takes every chunk at once.
Next ==
    \/ init /\ UNCHANGED <<streamVars, otherVars>>
    \/ NextFromStart /\ UNCHANGED <<streamVars, otherVars>>
    \/ NextAfterMain /\ UNCHANGED <<streamVars, otherVars>>
    \/ NextAfterCentral /\ UNCHANGED <<streamVars, otherVars>>
    \/ NextAfterEnd /\ UNCHANGED <<streamVars, otherVars>>

Spec == Init /\ [][Next]_vars

(* ------------------ MissionZipStream.connectToResponse ---------------- *)

RECURSIVE toString(_)
\* Number.prototype.toString: the decimal digits of n, as character codes.
toString(n) ==
    IF n < 0 THEN <<45>> \o toString(0 - n)
    ELSE IF n < 10 THEN <<48 + n>>
    ELSE toString(n \div 10) \o <<48 + (n % 10)>>

\* The fileName the route hands to connectToResponse.
fileName == "levels.zip"

\* Mutant of setHeaders: the headers are set without awaiting init.
setHeaders_BeforeInit ==
    /\ headers = NoHeaders
    /\ headers' = [type |-> "application/zip",
                   disposition |-> <<"attachment; filename=", fileName>>,
                   length |-> toString(expectedSize)]
    /\ UNCHANGED <<genVars, otherVars, piped, reading, reads, requests, resolved, pushed, stream,
                   stopped, nextCalls>>

\* connectToResponse after `await this.init()`: the three res.set calls.
setHeaders ==
    /\ gpc # "unset"
    /\ headers = NoHeaders
    /\ headers' = [type |-> "application/zip",
                   disposition |-> <<"attachment; filename=", fileName>>,
                   length |-> toString(expectedSize)]
    /\ UNCHANGED <<genVars, otherVars, piped, reading, reads, requests, resolved, pushed, stream,
                   stopped, nextCalls>>

\* this.pipe(res)
pipe ==
    /\ headers # NoHeaders
    /\ ~piped
    /\ piped' = TRUE
    /\ UNCHANGED <<genVars, otherVars, headers, reading, reads, requests, resolved, pushed, stream,
                   stopped, nextCalls>>

(* ----------------------- MissionZipStream._read ----------------------- *)

\* The Readable calls _read, for the response that drains it or, once the
\* response is gone, to read ahead after a push that left room in its buffer:
\* the invocation runs to its first `await this.generator.next()`.
read ==
    /\ piped
    /\ ~reading
    /\ stream = "open"
    /\ ~stopped \/ (pushed # <<>> /\ pushed[Len(pushed)].allowedMore)
    /\ Len(reads) < MaxReads
    /\ reading' = TRUE
    /\ reads' = Append(reads, "awaiting")
    /\ requests' = Append(requests, Len(reads) + 1)
    /\ nextCalls' = nextCalls + 1
    /\ UNCHANGED <<genVars, otherVars, headers, piped, resolved, pushed, stream, stopped>>

\* What the generator's step hands to the next() call it answers.
resultOf(r) ==
    [read |-> r,
     kind |-> IF gpc' = "threw" /\ gpc # "threw" THEN "error"
              ELSE IF Len(yielded') > Len(yielded) THEN "value"
              ELSE "done",
     value |-> IF Len(yielded') > Len(yielded) THEN yielded'[Len(yielded')].bytes ELSE <<>>]

\* Mutant of settle: the generator runs on whether or not a next() is waiting.
settle_Eager ==
    IF requests = <<>>
    THEN UNCHANGED <<streamVars, otherVars>>
    ELSE /\ requests' = Tail(requests)
         /\ resolved' = Append(resolved, resultOf(Head(requests)))
         /\ UNCHANGED <<otherVars, headers, piped, reading, reads, pushed, stream, stopped, nextCalls>>

\* An async generator runs only for a next() call that is waiting, the oldest
\* first, and settles that call's promise when it yields, returns or throws.
settle ==
    /\ requests # <<>>
    /\ requests' = Tail(requests)
    /\ resolved' = Append(resolved, resultOf(Head(requests)))
    /\ UNCHANGED <<otherVars, headers, piped, reading, reads, pushed, stream, stopped, nextCalls>>

\* Mutant of readResumes: the loop goes on whatever push returned.
readResumes_NoBreak ==
    /\ resolved # <<>>
    /\ Head(resolved).kind # "error"
    /\ resolved' = Tail(resolved)
    /\ reading' = FALSE
    /\ LET next == Head(resolved)
       IN  IF next.kind = "done"
           THEN /\ pushed' = Append(pushed, [read |-> next.read, kind |-> "null",
                                             bytes |-> <<>>, allowedMore |-> FALSE])
                /\ stream' = IF stream = "open" THEN "ended" ELSE stream
                /\ reads' = [reads EXCEPT ![next.read] = "returned"]
                /\ UNCHANGED <<requests, nextCalls>>
           ELSE \E allowedMore \in IF stream = "open" THEN BOOLEAN ELSE {FALSE} :
                /\ pushed' = Append(pushed, [read |-> next.read, kind |-> "data",
                                             bytes |-> next.value,
                                             allowedMore |-> allowedMore])
                /\ stream' = stream
                /\ requests' = Append(requests, next.read)
                /\ nextCalls' = nextCalls + 1
                /\ reads' = reads
    /\ UNCHANGED <<genVars, otherVars, headers, piped, stopped>>

\* Mutant of readResumes: the invocation whose next() settled last resumes first.
readResumes_Newest ==
    /\ resolved # <<>>
    /\ resolved[Len(resolved)].kind # "error"
    /\ resolved' = SubSeq(resolved, 1, Len(resolved) - 1)
    /\ reading' = FALSE
    /\ LET next == resolved[Len(resolved)]
       IN  IF next.kind = "done"
           THEN /\ pushed' = Append(pushed, [read |-> next.read, kind |-> "null",
                                             bytes |-> <<>>, allowedMore |-> FALSE])
                /\ stream' = IF stream = "open" THEN "ended" ELSE stream
                /\ reads' = [reads EXCEPT ![next.read] = "returned"]
                /\ UNCHANGED <<requests, nextCalls>>
           ELSE \E allowedMore \in IF stream = "open" THEN BOOLEAN ELSE {FALSE} :
                /\ pushed' = Append(pushed, [read |-> next.read, kind |-> "data",
                                             bytes |-> next.value,
                                             allowedMore |-> allowedMore])
                /\ stream' = stream
                /\ IF allowedMore
                   THEN /\ requests' = Append(requests, next.read)
                        /\ nextCalls' = nextCalls + 1
                        /\ reads' = reads
                   ELSE /\ reads' = [reads EXCEPT ![next.read] = "returned"]
                        /\ UNCHANGED <<requests, nextCalls>>
    /\ UNCHANGED <<genVars, otherVars, headers, piped, stopped>>

\* An invocation of _read resumes after `await this.generator.next()` with the
\* oldest settled result: it pushes, then loops to the next next() or returns.
readResumes ==
    /\ resolved # <<>>
    /\ Head(resolved).kind # "error"
    /\ resolved' = Tail(resolved)
    /\ reading' = FALSE
    /\ LET next == Head(resolved)
       IN  IF next.kind = "done"
           THEN /\ pushed' = Append(pushed, [read |-> next.read, kind |-> "null",
                                             bytes |-> <<>>, allowedMore |-> FALSE])
                /\ stream' = IF stream = "open" THEN "ended" ELSE stream
                /\ reads' = [reads EXCEPT ![next.read] = "returned"]
                /\ UNCHANGED <<requests, nextCalls>>
           ELSE \E allowedMore \in IF stream = "open" THEN BOOLEAN ELSE {FALSE} :
                /\ pushed' = Append(pushed, [read |-> next.read, kind |-> "data",
                                             bytes |-> next.value,
                                             allowedMore |-> allowedMore])
                /\ stream' = stream
                /\ IF allowedMore
                   THEN /\ requests' = Append(requests, next.read)
                        /\ nextCalls' = nextCalls + 1
                        /\ reads' = reads
                   ELSE /\ reads' = [reads EXCEPT ![next.read] = "returned"]
                        /\ UNCHANGED <<requests, nextCalls>>
    /\ UNCHANGED <<genVars, otherVars, headers, piped, stopped>>

\* `await this.generator.next()` throws: the invocation of _read ends with its
\* promise rejected, which _read hands to no one. What becomes of the
\* Readable is the runtime's choice.
readRejects ==
    /\ resolved # <<>>
    /\ Head(resolved).kind = "error"
    /\ resolved' = Tail(resolved)
    /\ reads' = [reads EXCEPT ![Head(resolved).read] = "rejected"]
    /\ \/ stream' = stream
       \/ stream' = IF stream = "open" THEN "errored" ELSE stream
    /\ UNCHANGED <<genVars, otherVars, headers, piped, reading, requests, pushed, stopped, nextCalls>>

\* The client disconnects or a write to the response fails: the response is
\* unpiped and asks for no further chunk.
consumerStops ==
    /\ piped
    /\ ~stopped
    /\ stream = "open"
    /\ stopped' = TRUE
    /\ UNCHANGED <<genVars, otherVars, headers, piped, reading, reads, requests, resolved, pushed,
                   stream, nextCalls>>

(* ------------------- the stream piped to a response ------------------- *)

\* The declarations of the missions streamed to a response: each declares "a",
\* whose file is on disk for some and missing for others.
StreamDecls == {m \in MissionDecls(1) : m.dependencies = <<<<97>>>>}

\* The mission lists streamed to a response.
StreamLists ==
    UNION {{MissionsOf(decls) : decls \in [1..n -> StreamDecls]} : n \in 0..MaxMissions}

StreamInit ==
    /\ missions \in StreamLists
    /\ assuming \in Assumings
    /\ fault = NoFault
    /\ NewGenerator
    /\ NewStream
    /\ NewOther

\* connectToResponse, the Readable's calls of _read and the generator they drive.
StreamNext ==
    \/ init /\ UNCHANGED <<streamVars, otherVars>>
    \/ setHeaders
    \/ pipe
    \/ read
    \/ NextFromStart /\ settle
    \/ NextAfterMain /\ settle
    \/ NextAfterCentral /\ settle
    \/ NextAfterEnd /\ settle
    \/ NextWhenDone /\ settle
    \/ readResumes
    \/ consumerStops

StreamSpec == StreamInit /\ [][StreamNext]_vars

\* The same stream when one call of the Archive Builder goes wrong.
FaultInit ==
    /\ missions \in StreamLists
    /\ assuming \in Assumings
    /\ fault \in FaultsOf(Len(missions))
    /\ NewGenerator
    /\ NewStream
    /\ NewOther

FaultNext ==
    \/ StreamNext
    \/ readRejects

FaultSpec == FaultInit /\ [][FaultNext]_vars

(* ------------------ a consumer that keeps on pulling ------------------ *)

\* One more generator.next() by a consumer that awaits each before the next.
pulled ==
    /\ nextCalls' = nextCalls + 1
    /\ UNCHANGED <<otherVars, headers, piped, reading, reads, requests, resolved, pushed, stream,
                   stopped>>

\* The consumer calls next() until the generator is done, and then up to
\* MaxReads times more.
PullNext ==
    \/ init /\ UNCHANGED <<streamVars, otherVars>>
    \/ NextFromStart /\ pulled
    \/ NextAfterMain /\ pulled
    \/ NextAfterCentral /\ pulled
    \/ NextAfterEnd /\ pulled
    \/ NextWhenDone /\ nextCalls < Len(yielded) + 1 + MaxReads /\ pulled

PullSpec == StreamInit /\ [][PullNext]_vars

(* ------------------- reading the output as a zip reader --------------- *)

\* The chunks of one kind among those yielded, in the order they were yielded.
chunksOf(kind) == SelectSeq(yielded, LAMBDA ch : ch.kind = kind)

\* The bytes of a sequence of chunks.
bytesOf(chunks) == [k \in 1..Len(chunks) |-> chunks[k].bytes]

\* The kinds of the chunks yielded, in order.
kindsYielded == [k \in 1..Len(yielded) |-> yielded[k].kind]

\* Everything yielded so far, concatenated.
outputBytes == Flatten(bytesOf(yielded))

\* All main parts yielded so far, concatenated.
mainBytes == Flatten(bytesOf(chunksOf("main")))

RECURSIVE centralEntries(_, _)
\* The entries of a central directory buffer from offset `index` on: each with
\* its file name bytes and its recorded local header offset.
centralEntries(cd, index) ==
    IF index + CentralHeaderSize > Len(cd) THEN <<>>
    ELSE LET nameLen == getUint16(cd, index + 28)
             stride == CentralHeaderSize + nameLen + getUint16(cd, index + 30)
                           + getUint16(cd, index + 32)
         IN  <<[name |-> slice(cd, index + CentralHeaderSize, index + CentralHeaderSize + nameLen),
                offset |-> getUint32(cd, index + 42)]>>
                 \o centralEntries(cd, index + stride)

RECURSIVE localEntries(_, _)
\* The local file entries of a buffer of local headers and data from offset
\* `index` on: each with its offset, its file name bytes and its data.
localEntries(buf, index) ==
    IF index + LocalHeaderSize > Len(buf) THEN <<>>
    ELSE LET nameLen == getUint16(buf, index + 26)
             extraLen == getUint16(buf, index + 28)
             size == getUint32(buf, index + 18)
             dataAt == index + LocalHeaderSize + nameLen + extraLen
         IN  <<[at |-> index,
                name |-> slice(buf, index + LocalHeaderSize, index + LocalHeaderSize + nameLen),
                data |-> slice(buf, dataAt, dataAt + size)]>>
                 \o localEntries(buf, dataAt + size)

\* The file name found in the local file header at `offset` of a buffer
\* (<<-1>> when no local file header starts there).
localNameAt(buf, offset) ==
    IF offset + LocalHeaderSize <= Len(buf) /\ slice(buf, offset, offset + 4) = <<80, 75, 3, 4>>
    THEN slice(buf, offset + LocalHeaderSize,
               offset + LocalHeaderSize + getUint16(buf, offset + 26))
    ELSE <<-1>>

(* ------------------------------- claims ------------------------------- *)

\* The dependencies of a mission that resolve to a file and normalize to `path`.
presentDeclarations(mission, path) ==
    {j \in 1..Len(mission.dependencies) :
        /\ normalizeDependency(mission, mission.dependencies[j]) = path
        /\ findPath(mission, mission.dependencies[j]) # null}

\* C1 (as claimed): when generateZip has finished, the size init computed
\* (expectedSize) equals the total length of all chunks generateZip yielded,
\* for every mission list, resolvable or missing dependencies alike.
C1_LengthInvariant ==
    gpc = "done" => expectedSize = SumLen(bytesOf(yielded))

\* The local file entries of all main parts yielded so far.
outputEntries == localEntries(mainBytes, 0)

\* The file names (as bytes) of the local file entries yielded so far.
outputNames == {outputEntries[k].name : k \in 1..Len(outputEntries)}

\* The zip.file calls made so far for one canonical path.
callsFor(path) == {k \in 1..Len(registered) : registered[k].name = path}

\* The missions of the list that declare `path` with a file present on disk.
suppliers(path) == {i \in 1..Len(missions) : presentDeclarations(missions[i], path) # {}}

\* Whether the mode's excluded set holds the path, compared case-insensitively.
excludedBy(mode, path) ==
    \/ mode = "gold" /\ toLowerCase(path) \in structureMBGSet
    \/ mode = "platinumquest" /\ toLowerCase(path) \in structurePQSet

\* The canonical paths the missions of the list declare.
declaredPaths ==
    UNION {{normalizeDependency(missions[i], missions[i].dependencies[j]) :
               j \in 1..Len(missions[i].dependencies)} : i \in 1..Len(missions)}

\* No canonical path was handed to zip.file twice, and none has two local
\* file entries in the main parts yielded.
noPathTwice ==
    /\ \A k, l \in 1..Len(registered) : registered[k].name = registered[l].name => k = l
    /\ \A k, l \in 1..Len(outputEntries) :
           outputEntries[k].name = outputEntries[l].name => k = l

\* C2: at every point of a generateZip run no canonical path has been
\* registered as a file entry more than once over all sub-archives built so
\* far (neither within one mission nor in two missions), and includedFiles
\* only ever grows.
C2_NoPathTwice ==
    /\ [](noPathTwice)
    /\ [][includedFiles \subseteq includedFiles']_vars

\* C2 witness: generateZip has finished a list in which one mission declares
\* a path twice (both files present) and another mission declares it too, and
\* the path was registered.
C2_Witness ==
    /\ gpc = "done"
    /\ \E path \in declaredPaths :
           /\ Cardinality(callsFor(path)) = 1
           /\ Cardinality(suppliers(path)) >= 2
           /\ \E i \in suppliers(path) :
                  Cardinality(presentDeclarations(missions[i], path)) >= 2

\* The first declaration of `path` in mission i whose file is present.
firstPresent(i, path) ==
    CHOOSE j \in presentDeclarations(missions[i], path) :
        \A l \in presentDeclarations(missions[i], path) : j <= l

\* The file of mission i for `path`.
fileOf(i, path) == fileData(findPath(missions[i], missions[i].dependencies[firstPresent(i, path)]))

\* The data of the output's entries named `path`.
outputDataFor(path) ==
    {k \in 1..Len(outputEntries) : outputEntries[k].name = utf8encode(path)}

\* C3 (as claimed): if two missions both declare a dependency normalizing to
\* the same canonical path (not excluded, both files present), the finished
\* archive has exactly one entry for the path, and its content is the file of
\* the mission that is earliest in the caller-supplied order.
C3_EarliestWins ==
    gpc = "done" =>
        \A path \in declaredPaths : \A i, k \in suppliers(path) :
            (i < k /\ ~excludedBy(assuming, path)) =>
                /\ Cardinality(outputDataFor(path)) = 1
                /\ \A e \in outputDataFor(path) : outputEntries[e].data = fileOf(i, path)

\* C3 (amended): under the same conditions the archive has exactly one entry
\* for the path, and its content is the file of the mission that is latest in
\* the caller-supplied order among the missions declaring the path with a
\* file present.
C3_LatestWins ==
    gpc = "done" =>
        \A path \in declaredPaths : \A i, k \in suppliers(path) :
            (i < k /\ ~excludedBy(assuming, path)) =>
                /\ Cardinality(outputDataFor(path)) = 1
                /\ \A e \in outputDataFor(path) : \A w \in suppliers(path) :
                       (\A o \in suppliers(path) : o <= w) =>
                           outputEntries[e].data = fileOf(w, path)

\* C3 witness: generateZip has finished a list in which two missions supply
\* the same path, not excluded, with different files.
C3_Witness ==
    /\ gpc = "done"
    /\ \E path \in declaredPaths : \E i, k \in suppliers(path) :
           /\ i < k
           /\ ~excludedBy(assuming, path)
           /\ fileOf(i, path) # fileOf(k, path)
           /\ outputDataFor(path) # {}

\* C4: under gold (platinumquest) no path whose lower-cased form is in
\* structureMBGSet (structurePQSet) is handed to zip.file, appears as an entry
\* of the output or is added by init, whoever declares it; under none every
\* declared dependency whose file is present ends in the archive and every
\* declared dependency is counted by init (none is skipped as a default asset).
C4_Exclusion ==
    /\ \A k \in 1..Len(registered) : ~excludedBy(assuming, registered[k].name)
    /\ outputNames \subseteq {utf8encode(registered[k].name) : k \in 1..Len(registered)}
    /\ \A a \in counted : ~excludedBy(assuming, a.name)
    /\ (assuming = "none" /\ gpc = "done") =>
           \A path \in declaredPaths : suppliers(path) # {} => utf8encode(path) \in outputNames
    /\ (assuming = "none" /\ gpc # "unset") =>
           \A path \in declaredPaths : \E a \in counted : a.name = path

\* C4 witness: under gold, generateZip has finished a list in which exactly
\* one mission supplies a base game asset and another path was included.
C4_Witness ==
    /\ gpc = "done"
    /\ assuming = "gold"
    /\ \E path \in declaredPaths :
           /\ excludedBy("gold", path)
           /\ Cardinality(suppliers(path)) = 1
    /\ includedFiles # {}
    /\ counted # {}

\* The main parts and the central directory buffers yielded so far.
mainChunks == bytesOf(chunksOf("main"))

centralChunks == bytesOf(chunksOf("central"))

\* The central directory entries yielded so far.
centralEntriesYielded == centralEntries(Flatten(centralChunks), 0)

\* C5: every central directory entry kept or emitted by generateZip records
\* its offset inside its own sub-archive plus the total length of the main
\* parts of the missions processed before its mission (its own main part not
\* included), and in the concatenated main parts the local file header at
\* the recorded offset carries the entry's file name.
C5_OffsetsCorrect ==
    /\ Len(centralChunks) <= Len(centralDirectories)
    /\ \A c \in 1..Len(centralChunks) : centralChunks[c] = centralDirectories[c]
    /\ Len(builtCentral) = Len(centralDirectories)
    /\ Len(centralDirectories) <= Len(mainChunks)
    /\ \A k \in 1..Len(centralDirectories) :
           LET fixed == centralEntries(centralDirectories[k], 0)
               built == centralEntries(builtCentral[k], 0)
               before == SumLen(SubSeq(mainChunks, 1, k - 1))
           IN  /\ Len(fixed) = Len(built)
               /\ \A e \in 1..Len(fixed) :
                      /\ fixed[e].name = built[e].name
                      /\ fixed[e].offset = built[e].offset + before
                      /\ localNameAt(mainChunks[k], built[e].offset) = fixed[e].name
                      /\ localNameAt(mainBytes, fixed[e].offset) = fixed[e].name

\* C5 witness: a central directory with an entry was emitted for a mission
\* processed after a mission whose main part is not empty.
C5_Witness ==
    /\ Len(centralChunks) >= 2
    /\ Len(mainChunks[1]) > 0
    /\ centralEntries(centralChunks[2], 0) # <<>>

\* C6: once the end record is out, the file names of the local file entries
\* emitted, the file names of the central directory entries emitted and
\* includedFiles are the same set, and the end record's entry count and
\* total-entry count both are the size of that set.
C6_EntriesMatch ==
    gpc \in {"end", "done"} =>
        /\ outputNames = {utf8encode(path) : path \in includedFiles}
        /\ {centralEntriesYielded[k].name : k \in 1..Len(centralEntriesYielded)} = outputNames
        /\ Len(centralEntriesYielded) = Cardinality(includedFiles)
        /\ Len(outputEntries) = Cardinality(includedFiles)
        /\ getUint16(yielded[Len(yielded)].bytes, 8) = Cardinality(includedFiles)
        /\ getUint16(yielded[Len(yielded)].bytes, 10) = Cardinality(includedFiles)

\* C6 witness: generateZip has finished with two files included, from two missions.
C6_Witness ==
    /\ gpc = "done"
    /\ Cardinality(includedFiles) = 2
    /\ Len(mainChunks) = 2
    /\ Len(mainChunks[1]) > 0
    /\ Len(mainChunks[2]) > 0

\* The place of a chunk's kind in the order of the regions.
regionOf(kind) == IF kind = "main" THEN 1 ELSE IF kind = "central" THEN 2 ELSE 3

\* The file names of a sequence of entries, in order.
namesOf(entries) == [k \in 1..Len(entries) |-> entries[k].name]

\* C7: the chunks yielded come in three consecutive regions: the main parts
\* in mission-processing order, then the central directory buffers of the same
\* missions in the same order, then exactly one end record as the last chunk;
\* no main part follows a central directory and nothing follows the end record.
C7_Regions ==
    /\ \A a, b \in 1..Len(yielded) :
           a < b => regionOf(yielded[a].kind) <= regionOf(yielded[b].kind)
    /\ \A a \in 1..Len(yielded) : yielded[a].kind = "end" => a = Len(yielded)
    /\ gpc \in {"end", "done"} <=> (yielded # <<>> /\ yielded[Len(yielded)].kind = "end")
    /\ gpc \in {"end", "done"} => Len(centralChunks) = Len(mainChunks)
    /\ Len(centralChunks) <= Len(mainChunks)
    /\ namesOf(outputEntries) = [k \in 1..Len(registered) |-> utf8encode(registered[k].name)]
    /\ \A k, l \in 1..Len(registered) : k < l => registered[k].mission >= registered[l].mission
    /\ \A c \in 1..Len(centralChunks) :
           namesOf(centralEntries(centralChunks[c], 0)) = namesOf(localEntries(mainChunks[c], 0))

\* C7 witness: generateZip has finished two missions with one file each,
\* under different names: two main parts, two central directories, the end record.
C7_Witness ==
    /\ gpc = "done"
    /\ kindsYielded = <<"main", "main", "central", "central", "end">>
    /\ centralEntries(centralChunks[1], 0) # <<>>
    /\ centralEntries(centralChunks[2], 0) # <<>>
    /\ centralChunks[1] # centralChunks[2]

\* C8: the end record's central-directory start offset is the total length of
\* all main parts emitted and its central-directory size is the total length
\* of all central directory buffers emitted.
C8_EndRecordLocates ==
    \A a \in 1..Len(yielded) :
        yielded[a].kind = "end" =>
            /\ Len(yielded[a].bytes) = EndRecordSize
            /\ getUint32(yielded[a].bytes, 16) = SumLen(mainChunks)
            /\ getUint32(yielded[a].bytes, 12) = SumLen(centralChunks)

\* C8 witness: an end record was emitted after main parts and central
\* directories of different total lengths, none of them empty.
C8_Witness ==
    /\ gpc = "end"
    /\ SumLen(mainChunks) > 0
    /\ SumLen(centralChunks) > 0
    /\ SumLen(mainChunks) # SumLen(centralChunks)

\* C9: on an empty mission list, under every mode, generateZip yields exactly
\* one chunk, the 22-byte end record with both entry counts, the central
\* directory size and the central directory offset zero, and init computes 22.
C9_EmptyList ==
    missions = <<>> =>
        /\ gpc \in {"unset", "start", "end", "done"}
        /\ gpc \in {"unset", "start"} => yielded = <<>>
        /\ gpc \in {"end", "done"} =>
               yielded = <<[kind |-> "end",
                            bytes |-> <<80, 75, 5, 6, 0, 0, 0, 0, 0, 0, 0, 0,
                                        0, 0, 0, 0, 0, 0, 0, 0, 0, 0>>]>>
        /\ gpc # "unset" => expectedSize = 22

\* C9 witness: generateZip has finished an empty mission list.
C9_Witness == missions = <<>> /\ gpc = "done" /\ Len(yielded) = 1

\* The archive the builder makes of a mission's files alone, all resolvable.
builtAlone(mission) ==
    generateAsync([j \in 1..Len(mission.dependencies) |->
        [name |-> normalizeDependency(mission, mission.dependencies[j]),
         dir |-> FALSE,
         data |-> fileData(findPath(mission, mission.dependencies[j]))]])

\* C10: for a single mission with N dependencies that normalize to N
\* distinct paths, all resolvable, under none: the chunks generateZip yields
\* are the main part, the central directory (offsets unchanged) and the end
\* record of the archive the builder makes of the mission's files alone, with
\* N entries.
C10_SingleMission ==
    (/\ gpc = "done"
     /\ Len(missions) = 1
     /\ assuming = "none"
     /\ missions[1].missing = {}
     /\ Cardinality({normalizeDependency(missions[1], d) : d \in Range(missions[1].dependencies)})
            = Len(missions[1].dependencies))
    => LET alone == builtAlone(missions[1])
           n == Len(missions[1].dependencies)
           dirAt == getUint32(alone, Len(alone) - EndRecordSize + 16)
       IN  /\ outputBytes = alone
           /\ kindsYielded = <<"main", "central", "end">>
           /\ yielded[1].bytes = SubSeq(alone, 1, dirAt)
           /\ yielded[2].bytes = SubSeq(alone, dirAt + 1, Len(alone) - EndRecordSize)
           /\ yielded[2].bytes = builtCentral[1]
           /\ yielded[3].bytes = SubSeq(alone, Len(alone) - EndRecordSize + 1, Len(alone))
           /\ Len(outputEntries) = n
           /\ Len(centralEntriesYielded) = n
           /\ getUint16(yielded[3].bytes, 10) = n

\* C10 witness: generateZip has finished a single mission with two
\* dependencies of different paths, both resolvable, under none.
C10_Witness ==
    /\ gpc = "done"
    /\ Len(missions) = 1
    /\ assuming = "none"
    /\ missions[1].missing = {}
    /\ Len(missions[1].dependencies) = 2
    /\ Cardinality(includedFiles) = 2

(* ------------------ MissionZipStream.init, pass by pass --------------- *)

\* init awaits setImmediate after the pass for every mission whose index is
\* a multiple of this.
YieldEvery == 100

\* Longest mission list whose size is estimated pass by pass.
MaxWalk == 201

\* The k-th mission of a long list declares one of the three dependencies in turn.
walkDecl(k) ==
    [dependencies |-> << IF k % 3 = 0 THEN <<65>>
                         ELSE IF k % 3 = 1 THEN <<97>>
                         ELSE <<100, 47, 201>> >>,
     missing |-> {}]

\* The long mission lists.
WalkLists == {MissionsOf([k \in 1..n |-> walkDecl(k)]) : n \in 0..MaxWalk}

\* The variables of the generator that init's loop neither reads nor writes.
generatorLocals == <<gi, generated, magicAt, gc, centralDirectories,
                     centralDirectorySizeTotal, mainPartLength, includedFiles, yielded,
                     registered, builtCentral, fault, builds>>

\* init up to its loop: the generator is created, the locals are set.
walkStarts ==
    /\ walk.pc = "idle"
    /\ gpc = "unset"
    /\ gpc' = "start"
    /\ walk' = [pc |-> "loop", i |-> Len(missions) - 1, includedFiles |-> {},
                totalSize |-> 0, run |-> 0]
    /\ UNCHANGED <<missions, assuming, expectedSize, counted, generatorLocals, streamVars,
                   besides_walk>>

\* Mutant of walkPass: the loop never awaits setImmediate.
walkPass_NoYield ==
    /\ walk.pc = "loop"
    /\ walk.i >= 0
    /\ LET m == sizeOfDependencies(missions[walk.i + 1], 1, walk.includedFiles,
                                   walk.totalSize, {})
       IN  walk' = [pc |-> "loop",
                    i |-> walk.i - 1, includedFiles |-> m.included,
                    totalSize |-> m.totalSize, run |-> walk.run + 1]
    /\ UNCHANGED <<genVars, streamVars, besides_walk>>

\* One pass of init's loop, for this.missions[i], up to the await that may end it.
walkPass ==
    /\ walk.pc = "loop"
    /\ walk.i >= 0
    /\ LET m == sizeOfDependencies(missions[walk.i + 1], 1, walk.includedFiles,
                                   walk.totalSize, {})
       IN  walk' = [pc |-> IF walk.i % YieldEvery = 0 THEN "yielded" ELSE "loop",
                    i |-> walk.i - 1, includedFiles |-> m.included,
                    totalSize |-> m.totalSize, run |-> walk.run + 1]
    /\ UNCHANGED <<genVars, streamVars, besides_walk>>

\* setImmediate calls back: the loop goes on after the scheduler had its turn.
walkResumes ==
    /\ walk.pc = "yielded"
    /\ walk' = [walk EXCEPT !.pc = "loop", !.run = 0]
    /\ UNCHANGED <<genVars, streamVars, besides_walk>>

\* After the loop: the end record's length is added and expectedSize is set.
walkEnds ==
    /\ walk.pc = "loop"
    /\ walk.i < 0
    /\ walk' = [walk EXCEPT !.pc = "done", !.totalSize = walk.totalSize + EndRecordSize]
    /\ expectedSize' = walk.totalSize + EndRecordSize
    /\ UNCHANGED <<missions, assuming, counted, gpc, generatorLocals, streamVars,
                   besides_walk>>

WalkInit ==
    /\ missions \in WalkLists
    /\ assuming \in Assumings
    /\ fault = NoFault
    /\ NewGenerator
    /\ NewStream
    /\ NewOther

WalkNext ==
    \/ walkStarts
    \/ walkPass
    \/ walkResumes
    \/ walkEnds

WalkSpec == WalkInit /\ [][WalkNext]_vars

(* --------------- the backward scan, over the builder's end records ---------- *)

\* Most entries of the small sub-archives.
MaxEntries == 3

\* The magic number's bytes 50 4B 05 06 as the little-endian fields of an end
\* record hold them: all four as a 32-bit field, 50 4B and 05 06 as 16-bit ones.
magicAsUint32 == getUint32(U32BE(EndMagic), 0)
magicLowAsUint16 == getUint16(U32BE(EndMagic), 0)
magicHighAsUint16 == getUint16(U32BE(EndMagic), 2)

\* Entry counts of a sub-archive: a few files, or as many as the 16-bit field
\* reads 50 4B.
EntryCounts == (0..MaxEntries) \cup {magicLowAsUint16}

\* The least central-directory length of `count` entries with names of at least
\* one byte whose low 16 bits are `low`.
leastDirLength(count, low) ==
    LET least == count * (CentralHeaderSize + 1)
        k == (least - low + 65535) \div 65536
    IN  low + 65536 * k

\* Central-directory lengths of `count` entries: names of one length, and for
\* the great count the lengths whose bytes hold part of the magic number.
DirLengths(count) ==
    {count * (CentralHeaderSize + n) : n \in 1..MaxEntries}
        \cup (IF count = magicLowAsUint16
              THEN {magicAsUint32, leastDirLength(count, magicHighAsUint16)}
              ELSE {})

\* Lengths of the local part of `count` entries: small files, and for any
\* archive with a file the length whose four bytes are the magic number.
LocalDirLengths(count) ==
    {count * (LocalHeaderSize + n) : n \in 1..MaxEntries}
        \cup (IF count >= 1 THEN {magicAsUint32} ELSE {})

\* The last 22 bytes of `generated`: the end record jszip wrote for the scanned
\* sub-archive. Offsets in it are offsets in `generated` less
\* generated.byteLength - 22.
generatedTail == endRecord(scan.entries, scan.dirLength, scan.localDirLength)

\* for (let i = generated.byteLength - 4; i >= 0; i--) up to the first match.
scanStops ==
    /\ scan.pc = "generated"
    /\ scan' = [scan EXCEPT !.pc = "matched",
                            !.i = scanMagic(generatedTail, Len(generatedTail) - 4)]
    /\ UNCHANGED <<genVars, streamVars, besides_scan>>

\* dataView.getUint32(i + 16, true): a RangeError when the four bytes do not
\* lie within the buffer.
scanReads ==
    /\ scan.pc = "matched"
    /\ scan' = IF scan.i + 16 + 4 > Len(generatedTail)
               THEN [scan EXCEPT !.pc = "read", !.threw = TRUE]
               ELSE [scan EXCEPT !.pc = "read",
                                 !.startOfCentralDirectoryOffset =
                                     getUint32(generatedTail, scan.i + 16)]
    /\ UNCHANGED <<genVars, streamVars, besides_scan>>

\* Any end record the builder can write, about to be scanned.
ScanInit ==
    /\ missions \in {<<>>}
    /\ assuming \in Assumings
    /\ fault = NoFault
    /\ NewGenerator
    /\ NewStream
    /\ NewWalk /\ NewUtil /\ NewStore /\ NewDb /\ NewApi
    /\ \E count \in EntryCounts :
         \E dirLength \in DirLengths(count), localDirLength \in LocalDirLengths(count) :
            scan = [pc |-> "generated", entries |-> count, dirLength |-> dirLength,
                    localDirLength |-> localDirLength, i |-> 0,
                    startOfCentralDirectoryOffset |-> 0, threw |-> FALSE]

ScanNext ==
    \/ scanStops
    \/ scanReads

ScanSpec == ScanInit /\ [][ScanNext]_vars

(* ---------------------------- Util.readdirCached ------------------------- *)

\* Most calls of readdirCached.
MaxCalls == 3

\* Directory paths the callers ask for.
DirectoryPaths == {"data", "data/shapes"}

\* What fs.readdir may return for a directory; its content may change between
\* two reads.
Listings == {<<>>, <<"a.dts">>, <<"a.dts", "b.dts">>}

\* readdirCache.has(directoryPath); readdirCache is a sequence of <<path, promise>>
\* pairs in the order of the set calls.
cacheHas(cache, directoryPath) == \E k \in 1..Len(cache) : cache[k][1] = directoryPath

\* readdirCache.get(directoryPath): the promise last set for the path.
cacheGet(cache, directoryPath) ==
    LET last == CHOOSE k \in 1..Len(cache) :
                    /\ cache[k][1] = directoryPath
                    /\ \A l \in (k + 1)..Len(cache) : cache[l][1] # directoryPath
    IN  cache[last][2]

\* Mutant of readdirCached: the has() check is left out, every call makes its
\* own promise and stores it.
readdirCached_NoHas ==
    /\ Len(util.callers) < MaxCalls
    /\ \E directoryPath \in DirectoryPaths :
         LET promise == Len(util.promises) + 1
         IN  util' = [util EXCEPT
                 !.promises = Append(@, [path |-> directoryPath, pc |-> "pathExists",
                                         files |-> <<>>]),
                 !.readdirCache = Append(@, <<directoryPath, promise>>),
                 !.callers = Append(@, [path |-> directoryPath, promise |-> promise,
                                        pc |-> "awaiting", files |-> <<>>])]
    /\ UNCHANGED <<genVars, streamVars, besides_util>>

\* readdirCached(directoryPath), synchronous as a whole: the cached promise, or
\* a new promise whose executor has run up to its first await and which is
\* stored in the cache before the call returns.
readdirCached ==
    /\ Len(util.callers) < MaxCalls
    /\ \E directoryPath \in DirectoryPaths :
         IF cacheHas(util.readdirCache, directoryPath)
         THEN util' = [util EXCEPT
                 !.callers = Append(@, [path |-> directoryPath,
                                        promise |-> cacheGet(util.readdirCache, directoryPath),
                                        pc |-> "awaiting", files |-> <<>>])]
         ELSE LET promise == Len(util.promises) + 1
              IN  util' = [util EXCEPT
                      !.promises = Append(@, [path |-> directoryPath, pc |-> "pathExists",
                                              files |-> <<>>]),
                      !.readdirCache = Append(@, <<directoryPath, promise>>),
                      !.callers = Append(@, [path |-> directoryPath, promise |-> promise,
                                             pc |-> "awaiting", files |-> <<>>])]
    /\ UNCHANGED <<genVars, streamVars, besides_util>>

\* await fs.pathExists(directoryPath) resumes: resolve([]) when the directory
\* does not exist, fs.readdir(directoryPath) is started when it does.
pathExistsReturns ==
    /\ \E p \in 1..Len(util.promises), exists \in BOOLEAN :
         /\ util.promises[p].pc = "pathExists"
         /\ util' = IF exists
                    THEN [util EXCEPT !.promises[p].pc = "readdir",
                                      !.readdirs = Append(@, util.promises[p].path)]
                    ELSE [util EXCEPT !.promises[p].pc = "resolved"]
    /\ UNCHANGED <<genVars, streamVars, besides_util>>

\* await fs.readdir(directoryPath) resumes with the listing: resolve(files).
readdirReturns ==
    /\ \E p \in 1..Len(util.promises), files \in Listings :
         /\ util.promises[p].pc = "readdir"
         /\ util' = [util EXCEPT !.promises[p].pc = "resolved",
                                 !.promises[p].files = files]
    /\ UNCHANGED <<genVars, streamVars, besides_util>>

\* fs.readdir rejects: the executor's async function rejects and resolve is
\* never called, so the cached promise stays pending for good.
readdirRejects ==
    /\ \E p \in 1..Len(util.promises) :
         /\ util.promises[p].pc = "readdir"
         /\ util' = [util EXCEPT !.promises[p].pc = "rejected"]
    /\ UNCHANGED <<genVars, streamVars, besides_util>>

\* A caller's await of the promise it was given resumes with the listing.
callerResumes ==
    /\ \E c \in 1..Len(util.callers) :
         /\ util.callers[c].pc = "awaiting"
         /\ util.promises[util.callers[c].promise].pc = "resolved"
         /\ util' = [util EXCEPT !.callers[c].pc = "got",
                                 !.callers[c].files =
                                     util.promises[util.callers[c].promise].files]
    /\ UNCHANGED <<genVars, streamVars, besides_util>>

CacheInit ==
    /\ missions \in {<<>>}
    /\ assuming = "none"
    /\ fault = NoFault
    /\ NewGenerator
    /\ NewStream
    /\ NewOther

CacheNext ==
    \/ readdirCached
    \/ pathExistsReturns
    \/ readdirReturns
    \/ readdirRejects
    \/ callerResumes

CacheSpec == CacheInit /\ [][CacheNext]_vars

(* ------------------------------ KeyValueStore ---------------------------- *)

\* Most calls of set() and save() on the store.
MaxSets == 3

\* The keys of the store and the values set, as their JSON text; undefined is
\* the value JSON.stringify leaves out.
StoreKeys == {"a", "b"}
StoreValues == {"1", "2", "undefined"}

\* this.data[key] = value on an object: a key keeps its place, a new key is added last.
assign(data, key, value) ==
    IF \E k \in 1..Len(data) : data[k][1] = key
    THEN [k \in 1..Len(data) |-> IF data[k][1] = key THEN <<key, value>> ELSE data[k]]
    ELSE Append(data, <<key, value>>)

RECURSIVE members(_, _)
\* The members of JSON.stringify's output from the k-th property on: properties
\* whose value is undefined are left out.
members(data, k) ==
    IF k > Len(data) THEN <<>>
    ELSE IF data[k][2] = "undefined" THEN members(data, k + 1)
    ELSE LET rest == members(data, k + 1)
         IN  <<"\"", data[k][1], "\":", data[k][2]>>
                 \o (IF rest = <<>> THEN <<>> ELSE <<",">> \o rest)

\* JSON.stringify(this.data)
JSONstringify(data) == <<"{">> \o members(data, 1) \o <<"}">>

\* Mutant of save: a write is started whether or not one is in flight.
save_Unguarded(s) ==
    [s EXCEPT !.saving = TRUE, !.needsSave = FALSE,
              !.writing = Append(@, JSONstringify(s.data))]

\* save() up to its await: needsSave is raised, and when no write is in flight
\* one is started with the data as it is now.
save(s) ==
    IF ~s.saving
    THEN [s EXCEPT !.saving = TRUE, !.needsSave = FALSE,
                   !.writing = Append(@, JSONstringify(s.data))]
    ELSE [s EXCEPT !.needsSave = TRUE]

\* set(key, value)
set ==
    /\ store.calls < MaxSets
    /\ \E key \in StoreKeys, value \in StoreValues :
         store' = save([store EXCEPT !.data = assign(@, key, value), !.calls = @ + 1])
    /\ UNCHANGED <<genVars, streamVars, besides_store>>

\* save() called on its own.
callsSave ==
    /\ store.calls < MaxSets
    /\ store' = save([store EXCEPT !.calls = @ + 1])
    /\ UNCHANGED <<genVars, streamVars, besides_store>>

\* Mutant of writeCompletes: needsSave is not looked at after the write.
writeCompletes_Forgets ==
    /\ \E w \in 1..Len(store.writing) :
         store' = [store EXCEPT
                      !.file = store.writing[w],
                      !.written = @ + 1,
                      !.writing = SubSeq(@, 1, w - 1) \o SubSeq(@, w + 1, Len(@)),
                      !.saving = FALSE]
    /\ UNCHANGED <<genVars, streamVars, besides_store>>

\* await fs.writeFile(...) resumes, the file written: saving is lowered, and
\* save() is called again when needsSave was raised meanwhile.
writeCompletes ==
    /\ \E w \in 1..Len(store.writing) :
         LET after == [store EXCEPT
                          !.file = store.writing[w],
                          !.written = @ + 1,
                          !.writing = SubSeq(@, 1, w - 1) \o SubSeq(@, w + 1, Len(@)),
                          !.saving = FALSE]
         IN  store' = IF after.needsSave THEN save(after) ELSE after
    /\ UNCHANGED <<genVars, streamVars, besides_store>>

\* Stores constructed on a path that does not exist, with or without a default.
StoreInit ==
    /\ missions \in {<<>>}
    /\ assuming = "none"
    /\ fault = NoFault
    /\ NewGenerator
    /\ NewStream
    /\ NewWalk /\ NewScan /\ NewUtil /\ NewDb /\ NewApi
    /\ \E defaults \in {<<>>, << <<"a", "1">> >>} :
         store = [data |-> defaults, needsSave |-> FALSE, saving |-> FALSE,
                  writing |-> <<>>, file |-> <<>>, written |-> 0, calls |-> 0]

StoreNext ==
    \/ set
    \/ callsSave
    \/ writeCompletes

StoreSpec == StoreInit /\ [][StoreNext]_vars

\* Every file write completes.
StoreFairSpec == StoreSpec /\ WF_vars(writeCompletes)

(* ------------------------- the download counters ------------------------- *)

\* Most download requests.
MaxRequests == 2

\* The _id values of the stored missions.
LevelIds == {1, 2}

\* A document without a downloads field: doc.downloads is undefined.
undefined == -1

\* doc.downloads ?? 0
orZero(downloads) == IF downloads = undefined THEN 0 ELSE downloads

\* The id lists a POST /api/level/zip may carry, duplicates removed, in the
\* order find returns the documents.
IdLists == {<<1>>, <<2>>, <<1, 2>>}

\* db.missions.update({ _id: doc._id }, doc) is called for the next document of
\* `docs` with its downloads raised by one over what the handler read; the
\* request is done when no document is left.
nextUpdate(request) ==
    IF request.left = <<>>
    THEN [request EXCEPT !.pc = "done"]
    ELSE [request EXCEPT !.pc = "update",
                         !.docs[Head(request.left)] = orZero(@) + 1]

\* GET /api/level/:levelId/zip arrives and, the level verified, awaits
\* db.missions.findOne.
getZip ==
    /\ Len(db.requests) < MaxRequests
    /\ \E levelId \in LevelIds :
         db' = [db EXCEPT !.requests = Append(@, [pc |-> "find", ids |-> <<levelId>>,
                                                  left |-> <<levelId>>, docs |-> <<>>])]
    /\ UNCHANGED <<genVars, streamVars, besides_db>>

\* POST /api/level/zip arrives and awaits db.missions.find({}).
postZip ==
    /\ Len(db.requests) < MaxRequests
    /\ \E ids \in IdLists :
         db' = [db EXCEPT !.requests = Append(@, [pc |-> "find", ids |-> ids, left |-> ids,
                                                  docs |-> <<>>])]
    /\ UNCHANGED <<genVars, streamVars, besides_db>>

\* find or findOne returns copies of the documents as stored now; the handler
\* raises the first one's downloads and calls update with it.
findReturns ==
    /\ \E r \in 1..Len(db.requests) :
         /\ db.requests[r].pc = "find"
         /\ db' = [db EXCEPT !.requests[r] =
                       nextUpdate([db.requests[r] EXCEPT !.docs = db.missions])]
    /\ UNCHANGED <<genVars, streamVars, besides_db>>

\* update replaces the stored document by the handler's and returns; the
\* handler goes on to its next document, if any.
updateReturns ==
    /\ \E r \in 1..Len(db.requests) :
         /\ db.requests[r].pc = "update"
         /\ LET request == db.requests[r]
                id == Head(request.left)
            IN  db' = [db EXCEPT
                    !.missions[id] = request.docs[id],
                    !.requests[r] = nextUpdate([request EXCEPT !.left = Tail(@)])]
    /\ UNCHANGED <<genVars, streamVars, besides_db>>

\* The stored missions, each downloaded before or never.
DownloadInit ==
    /\ missions \in {<<>>}
    /\ assuming = "none"
    /\ fault = NoFault
    /\ NewGenerator
    /\ NewStream
    /\ NewWalk /\ NewScan /\ NewUtil /\ NewStore /\ NewApi
    /\ \E stored \in [LevelIds -> {undefined, 0, 1}] :
         db = [missions |-> stored, before |-> stored, requests |-> <<>>]

DownloadNext ==
    \/ getZip
    \/ postZip
    \/ findReturns
    \/ updateReturns

DownloadSpec == DownloadInit /\ [][DownloadNext]_vars

(* --------------------------- POST /api/level/upload ---------------------- *)

\* Most requests to the upload and submit handlers.
MaxUploads == 2

\* null, as a JavaScript value with its type.
nullValue == [type |-> "null"]

\* authorize(req): an object with the fields doc and token; doc is the account
\* of a valid token and null without one.
authorize(req) ==
    [type |-> "object",
     doc |-> IF req.validToken THEN [type |-> "object", id |-> "account"] ELSE nullValue,
     token |-> IF req.validToken THEN [type |-> "string", value |-> "token"] ELSE nullValue]

\* !value: true of null and undefined, false of every object and every
\* non-empty string.
not(value) == value.type \in {"null", "undefined"}

\* A request arrives at POST /api/level/upload or POST /api/level/submit and
\* awaits authorize(req).
requestArrives ==
    /\ Len(api.requests) < MaxUploads
    /\ \E path \in {"upload", "submit"}, validToken \in BOOLEAN, unzips \in BOOLEAN :
         api' = [api EXCEPT !.requests =
                     Append(@, [path |-> path, validToken |-> validToken,
                                unzips |-> unzips, pc |-> "authorize", status |-> 0])]
    /\ UNCHANGED <<genVars, streamVars, besides_api>>

\* POST /api/level/upload after `await authorize(req)`: doc is what authorize
\* returned; 401 when !doc.
uploadAuthorized ==
    /\ \E r \in 1..Len(api.requests) :
         /\ api.requests[r].path = "upload"
         /\ api.requests[r].pc = "authorize"
         /\ LET doc == authorize(api.requests[r])
            IN  api' = IF not(doc)
                       THEN [api EXCEPT !.requests[r].pc = "sent",
                                        !.requests[r].status = 401]
                       ELSE [api EXCEPT !.requests[r].pc = "process"]
    /\ UNCHANGED <<genVars, streamVars, besides_api>>

\* POST /api/level/submit after `await authorize(req)`: doc is the doc field of
\* what authorize returned; 401 when !doc.
submitAuthorized ==
    /\ \E r \in 1..Len(api.requests) :
         /\ api.requests[r].path = "submit"
         /\ api.requests[r].pc = "authorize"
         /\ LET doc == authorize(api.requests[r]).doc
            IN  api' = IF not(doc)
                       THEN [api EXCEPT !.requests[r].pc = "sent",
                                        !.requests[r].status = 401]
                       ELSE [api EXCEPT !.requests[r].pc = "authorized"]
    /\ UNCHANGED <<genVars, streamVars, besides_api>>

\* The upload handler after unzipping and processing: 400 with the problems,
\* or the upload is remembered in ongoingUploads and the response is sent.
uploadProcessed ==
    /\ \E r \in 1..Len(api.requests), problems \in BOOLEAN :
         /\ api.requests[r].pc = "process"
         /\ api' = IF ~api.requests[r].unzips \/ problems
                   THEN [api EXCEPT !.requests[r].pc = "sent",
                                    !.requests[r].status = 400]
                   ELSE [api EXCEPT !.requests[r].pc = "sent",
                                    !.requests[r].status = 200,
                                    !.ongoingUploads = @ \cup {r}]
    /\ UNCHANGED <<genVars, streamVars, besides_api>>

UploadInit ==
    /\ missions \in {<<>>}
    /\ assuming = "none"
    /\ fault = NoFault
    /\ NewGenerator
    /\ NewStream
    /\ NewOther

UploadNext ==
    \/ requestArrives
    \/ uploadAuthorized
    \/ submitAuthorized
    \/ uploadProcessed

UploadSpec == UploadInit /\ [][UploadNext]_vars

(* ------------------------- the stream's consumer ---------------------- *)

RECURSIVE decimal(_)
\* The number a string of decimal digits stands for.
decimal(digits) ==
    IF digits = <<>> THEN 0
    ELSE decimal(SubSeq(digits, 1, Len(digits) - 1)) * 10 + (digits[Len(digits)] - 48)

\* The chunks handed to this.push, in the order of the calls.
pushedData == SelectSeq(pushed, LAMBDA p : p.kind = "data")

\* The invocations of _read that have not returned.
readsInProgress == {r \in 1..Len(reads) : reads[r] = "awaiting"}

\* C11: before the first chunk is pulled from the generator or pushed towards
\* the response, init has completed and Content-Type, Content-Disposition and
\* Content-Length are set, and Content-Length reads as the size init computes
\* for the mission list and the mode the generator streams.
C11_HeadersBeforeChunks ==
    (nextCalls > 0 \/ pushed # <<>> \/ yielded # <<>>) =>
        /\ gpc # "unset"
        /\ headers.type = "application/zip"
        /\ headers.disposition = <<"attachment; filename=", fileName>>
        /\ headers.length # <<>>
        /\ decimal(headers.length) = sizeOfMissions(Len(missions), {}, 0, {}).totalSize

\* C11 witness: a chunk with a file in it has been pushed towards the response.
C11_Witness ==
    \E k \in 1..Len(pushed) :
        /\ pushed[k].kind = "data"
        /\ Len(pushed[k].bytes) > EndRecordSize
        /\ decimal(headers.length) > EndRecordSize

\* C12: an invocation of _read whose push returned false calls next() no more
\* and has returned; next() is called only by a new invocation of _read or
\* right after a push that returned true; and the chunks pushed, followed by
\* those settled and about to be pushed, are the chunks yielded, each once and
\* in order.
C12_Backpressure ==
    /\ [](/\ \A k \in 1..Len(pushed) :
              ~pushed[k].allowedMore =>
                  /\ reads[pushed[k].read] = "returned"
                  /\ \A q \in 1..Len(requests) : requests[q] # pushed[k].read
                  /\ \A l \in (k + 1)..Len(pushed) : pushed[l].read # pushed[k].read
          /\ [k \in 1..Len(pushedData) |-> pushedData[k].bytes]
               \o [k \in 1..Len(SelectSeq(resolved, LAMBDA n : n.kind = "value")) |->
                      SelectSeq(resolved, LAMBDA n : n.kind = "value")[k].value]
               = bytesOf(yielded))
    /\ [][nextCalls' # nextCalls =>
            /\ nextCalls' = nextCalls + 1
            /\ \/ /\ reads' = Append(reads, "awaiting")
                  /\ requests' = Append(requests, Len(reads'))
               \/ /\ Len(pushed') = Len(pushed) + 1
                  /\ pushed'[Len(pushed')].kind = "data"
                  /\ pushed'[Len(pushed')].allowedMore
                  /\ requests' = Append(requests, pushed'[Len(pushed')].read)]_vars

\* C12 witness: a push returned false, and a later invocation of _read pushed
\* the next chunk.
C12_Witness ==
    \E k \in 1..Len(pushed) : \E l \in (k + 1)..Len(pushed) :
        /\ pushed[k].kind = "data" /\ ~pushed[k].allowedMore
        /\ pushed[l].kind = "data" /\ pushed[l].read # pushed[k].read

\* C13: once the consumer has stopped pulling and no invocation of _read is in
\* progress, no step resolves a dependency, builds a sub-archive, yields a chunk,
\* calls next() or starts a new invocation of _read.
C13_StopsAfterCancel ==
    [][(stopped /\ readsInProgress = {}) =>
          UNCHANGED <<genVars, reads, requests, nextCalls>>]_vars

\* C13 witness: the consumer has stopped, every invocation of _read has
\* returned, and missions of the list are still unprocessed.
C13_Witness ==
    /\ stopped
    /\ reads # <<>>
    /\ readsInProgress = {}
    /\ gpc = "main"
    /\ gi < Len(missions)

(* --------------------------- missing files ---------------------------- *)

\* The missions the for loop has taken so far (it walks the list backwards).
processed == {i \in 1..Len(missions) : Len(missions) - i + 1 <= gi}

\* The missions that declare `path` and have no file for any declaration of it.
declaresMissing(path) ==
    {i \in 1..Len(missions) :
        /\ presentDeclarations(missions[i], path) = {}
        /\ \E j \in 1..Len(missions[i].dependencies) :
               normalizeDependency(missions[i], missions[i].dependencies[j]) = path}

\* C14: a dependency findPath resolves to null raises no error and is neither
\* handed to zip.file nor added to includedFiles: includedFiles holds exactly
\* the paths registered, each with a file. So every path, not excluded, that a
\* mission taken so far declares with a file present is included, and its one
\* registration is by the first mission taken that has the file, whichever
\* missions taken before it lack the file.
C14_MissingSkipped ==
    /\ gpc # "threw"
    /\ \A k \in 1..Len(registered) : registered[k].fullPath # null
    /\ includedFiles = {registered[k].name : k \in 1..Len(registered)}
    /\ \A path \in declaredPaths :
           (~excludedBy(assuming, path) /\ suppliers(path) \cap processed # {}) =>
               /\ path \in includedFiles
               /\ \A k \in callsFor(path) : \A w \in suppliers(path) :
                      (\A o \in suppliers(path) : o <= w) => registered[k].mission = w

\* C14 witness: generateZip has finished a list in which the mission taken
\* first declares a path whose file it lacks, and a mission taken after it
\* supplied the path's entry.
C14_Witness ==
    /\ gpc = "done"
    /\ \E path \in declaredPaths : \E i \in suppliers(path) : \E k \in declaresMissing(path) :
           /\ i < k
           /\ utf8encode(path) \in outputNames
           /\ \E c \in callsFor(path) : registered[c].mission = i

(* ------------------------ the builder goes wrong ---------------------- *)

\* C15 (as claimed): once the Archive Builder has failed and every invocation
\* of _read has ended, the stream has failed and was never ended as if complete,
\* and the generator has yielded no central directory or end record.
C15_BuilderFailureFailsStream ==
    (gpc = "threw" /\ readsInProgress = {}) =>
        /\ stream = "errored"
        /\ \A k \in 1..Len(pushed) : pushed[k].kind # "null"
        /\ \A k \in 1..Len(yielded) : yielded[k].kind = "main"

\* C16 (as claimed): once generateZip has met a sub-archive in which the end
\* of central directory signature is nowhere found, it has failed: it has
\* built no further mission and has yielded no central directory and no end
\* record.
C16_UnscannableIsFatal ==
    (fault.kind = "truncated" /\ builds >= fault.at) =>
        /\ gpc = "threw"
        /\ builds = fault.at
        /\ \A k \in 1..Len(yielded) : yielded[k].kind = "main"

(* ----------------------------- termination ---------------------------- *)

\* C17: when every resolution and every builder call completes, every pull
\* of a consumer that keeps pulling is answered with one more chunk or with
\* the end; the generator yields at most 2 * |missions| + 1 chunks, so every
\* pull after that many is answered with the end; and once the generator is
\* done a further pull leaves it done: it yields no chunk and takes no
\* mission again.
C17_EndsAndStaysEnded ==
    /\ [](/\ Len(yielded) <= 2 * Len(missions) + 1
          /\ nextCalls > 2 * Len(missions) + 1 => gpc = "done"
          /\ nextCalls > Len(yielded) => gpc = "done")
    /\ [][/\ nextCalls' > nextCalls =>
               \/ Len(yielded') = Len(yielded) + 1 /\ gpc # "done"
               \/ gpc' = "done" /\ yielded' = yielded
          /\ gpc = "done" => UNCHANGED genVars]_vars

\* C17 witness: the generator is done after 2 * |missions| + 1 chunks from
\* two missions or more, and the consumer has pulled again after the end.
C17_Witness ==
    /\ gpc = "done"
    /\ Len(missions) >= 2
    /\ Len(yielded) = 2 * Len(missions) + 1
    /\ nextCalls > Len(yielded) + 1

(* ------------------------ the two walks compared ---------------------- *)

\* The (mission, dependency) pairs whose size init added.
countedPairs == {<<c.mission, missions[c.mission].dependencies[c.index]>> : c \in counted}

\* The (mission, dependency) pairs generateZip handed to zip.file.
placedPairs == {registered[k].fullPath : k \in 1..Len(registered)}

\* C18 (as claimed): when generateZip has finished, the pairs whose size init
\* added are the pairs generateZip placed in the output, and init's walk
\* ended with generateZip's includedFiles.
C18_SameWalk ==
    gpc = "done" =>
        /\ countedPairs = placedPairs
        /\ sizeOfMissions(Len(missions), {}, 0, {}).included = includedFiles

\* The missions taken so far for which zip.file was called at least once.
registering == {i \in processed : \E k \in 1..Len(registered) : registered[k].mission = i}

\* C19 (as claimed): the builder is invoked, a main part is yielded and a
\* central directory is kept only for the missions for which a dependency
\* got registered.
C19_EmptyMissionSkipped ==
    /\ builds = Cardinality(registering)
    /\ Len(mainChunks) = Cardinality(registering)
    /\ gpc \in {"central", "end", "done"} =>
           Len(centralDirectories) = Cardinality(registering)

\* C20: before the first next() nothing is resolved, registered, built or
\* yielded, and the sub-archives built never outnumber the next() calls the
\* generator has answered, so never the calls made.
C20_PullDriven ==
    /\ nextCalls = 0 =>
           /\ gpc \in {"unset", "start"}
           /\ registered = <<>> /\ includedFiles = {} /\ yielded = <<>> /\ builds = 0
    /\ builds <= nextCalls - Len(requests)
    /\ builds <= nextCalls
    /\ Len(yielded) <= nextCalls - Len(requests)

\* C20 witness: two sub-archives were built, the second for the second next().
C20_Witness ==
    /\ builds = 2
    /\ nextCalls = 2
    /\ Len(registered) >= 1

(* ----------------------- the estimator's long walk -------------------- *)

\* C21: init never makes more than YieldEvery passes of its loop without an
\* await of setImmediate between them; every pass takes the loop one mission
\* further; and the walk ends with the total the loop computes without any
\* await, which it stores in expectedSize.
C21_YieldsEveryHundred ==
    /\ [](/\ walk.run <= YieldEvery
          /\ walk.pc = "done" =>
                 /\ walk.totalSize = sizeOfMissions(Len(missions), {}, 0, {}).totalSize
                 /\ expectedSize = walk.totalSize)
    /\ [][walk.pc \in {"loop", "yielded"} =>
             \/ walk'.pc = "done" /\ walk.i < 0
             \/ walk'.pc = "loop" /\ walk.pc = "yielded" /\ walk'.i = walk.i
             \/ walk'.i = walk.i - 1 /\ walk.i >= 0]_vars

\* C21 witness: init has finished a list of more than YieldEvery missions
\* with files counted.
C21_Witness ==
    /\ walk.pc = "done"
    /\ Len(missions) > YieldEvery + 1
    /\ walk.totalSize > EndRecordSize

(* ------------------------------- the backward scan ------------------------ *)

\* C22: the backward scan stops at the true start of the end record (the
\* greatest offset holding 50 4B 05 06), and the value read 16 bytes after it
\* is the central directory's start offset, for every end record the builder
\* can write.
C22_ScanFindsEndRecord ==
    /\ scan.pc \in {"matched", "read"} =>
           /\ matchesMagic(generatedTail, scan.i)
           /\ \A j \in (scan.i + 1)..(Len(generatedTail) - 4) :
                  ~matchesMagic(generatedTail, j)
           /\ scan.i = Len(generatedTail) - EndRecordSize
    /\ scan.pc = "read" =>
           /\ ~scan.threw
           /\ scan.startOfCentralDirectoryOffset = scan.localDirLength

\* The part of C22 that holds: the scan stops at the greatest offset whose four
\* bytes are the magic number.
C22_StopsAtRightmost ==
    scan.pc \in {"matched", "read"} =>
        /\ matchesMagic(generatedTail, scan.i)
        /\ \A j \in (scan.i + 1)..(Len(generatedTail) - 4) :
               ~matchesMagic(generatedTail, j)

\* A scan that stopped inside the end record and threw on the read.
C22_FalseMatch ==
    /\ scan.pc = "read"
    /\ scan.threw
    /\ scan.i > Len(generatedTail) - EndRecordSize

(* ------------------------------ Util.readdirCached ------------------------ *)

\* How many times fs.readdir was started for the path.
readdirsOf(directoryPath) ==
    Cardinality({k \in 1..Len(util.readdirs) : util.readdirs[k] = directoryPath})

\* C23: the directory-listing cache is safe to share: an entry once stored is
\* never replaced or removed, at most one directory read is started per path
\* (one promise per path), and all callers for a path are given the same
\* promise and so obtain the same listing.
C23_CacheShared ==
    /\ [](/\ \A directoryPath \in DirectoryPaths : readdirsOf(directoryPath) <= 1
          /\ \A c, d \in 1..Len(util.callers) :
                 util.callers[c].path = util.callers[d].path =>
                     /\ util.callers[c].promise = util.callers[d].promise
                     /\ (util.callers[c].pc = "got" /\ util.callers[d].pc = "got" =>
                            util.callers[c].files = util.callers[d].files)
          /\ \A k, l \in 1..Len(util.readdirCache) :
                 util.readdirCache[k][1] = util.readdirCache[l][1] => k = l)
    /\ [][\A directoryPath \in DirectoryPaths :
              cacheHas(util.readdirCache, directoryPath) =>
                  /\ cacheHas(util'.readdirCache, directoryPath)
                  /\ cacheGet(util'.readdirCache, directoryPath)
                         = cacheGet(util.readdirCache, directoryPath)]_vars

\* C23 witness: two callers asked for the same path before its read had
\* completed, a third for another path, and the two have got a non-empty listing.
C23_Witness ==
    /\ Len(util.callers) = MaxCalls
    /\ util.callers[1].path = util.callers[2].path
    /\ util.callers[3].path # util.callers[1].path
    /\ util.callers[1].pc = "got" /\ util.callers[2].pc = "got"
    /\ util.callers[1].files # <<>>
    /\ readdirsOf(util.callers[1].path) = 1

(* ----------------------- overlapping invocations of _read ----------------- *)

\* The positions in `pushed` of the calls this.push(null).
pushedNulls == {p \in 1..Len(pushed) : pushed[p].kind = "null"}

\* C24: whichever invocations of _read overlap, the chunks pushed are the
\* chunks generateZip yielded, in the order of the yields and each once; no
\* chunk is pushed after this.push(null), and null is pushed only when the
\* generator is done and all its chunks have been pushed.
C24_PushedInYieldOrder ==
    /\ Len(pushedData) <= Len(yielded)
    /\ \A k \in 1..Len(pushedData) : pushedData[k].bytes = yielded[k].bytes
    /\ \A p \in pushedNulls :
           /\ gpc = "done"
           /\ \A q \in (p + 1)..Len(pushed) : pushed[q].kind = "null"
           /\ Cardinality({q \in 1..(p - 1) : pushed[q].kind = "data"}) = Len(yielded)

\* C24 witness: the second invocation of _read started while the first still
\* awaited the generator and pushed a chunk before the first pushed again, and
\* the stream has ended with all three chunks pushed.
C24_Witness ==
    /\ stream = "ended"
    /\ Len(pushedData) = 3
    /\ \E p, q \in 1..Len(pushed) :
           p < q /\ pushed[p].kind = "data" /\ pushed[p].read > pushed[q].read

(* -------------------------------- KeyValueStore --------------------------- *)

\* C25: at most one file write of the store is in flight at any time, and
\* `saving` says whether one is.
C25_OneWriteInFlight ==
    /\ Len(store.writing) <= 1
    /\ store.saving <=> store.writing # <<>>

\* C25 witness: set() was called while a write was in flight, after another
\* write had completed.
C25_Witness ==
    /\ store.saving
    /\ store.needsSave
    /\ store.written > 0

\* C26: when every write completes, no set() is lost: whenever the store is
\* idle after a save, needsSave is false and the file holds the serialization of
\* the current data, and once the calls have ended the store becomes idle for good.
C26_NoSetLost ==
    /\ [](~store.saving =>
             /\ ~store.needsSave
             /\ store.writing = <<>>
             /\ (store.calls > 0 => store.file = JSONstringify(store.data)))
    /\ <>[](~store.saving)

\* C26 witness: the store is idle after two writes, the second started by the
\* completion of the first, and the file holds a property set during the first write.
C26_Witness ==
    /\ ~store.saving
    /\ store.written = 2
    /\ store.calls = 2
    /\ Len(store.data) = 2
    /\ store.file = JSONstringify(store.data)
    /\ store.file # <<"{", "}">>

(* --------------------------- the download counters ------------------------ *)

\* The completed requests that include the mission.
completedWith(id) ==
    {r \in 1..Len(db.requests) :
        /\ db.requests[r].pc = "done"
        /\ \E k \in 1..Len(db.requests[r].ids) : db.requests[r].ids[k] = id}

\* C27: once the download requests have completed, the stored downloads value
\* of each mission has grown by the number of requests that include it, also
\* when they overlapped.
C27_CountsEveryDownload ==
    (\A r \in 1..Len(db.requests) : db.requests[r].pc = "done") =>
        \A id \in LevelIds :
            orZero(db.missions[id])
                = orZero(db.before[id]) + Cardinality(completedWith(id))

\* Two requests for the same mission have completed and its counter has grown by one.
C27_LostUpdate ==
    /\ \A r \in 1..Len(db.requests) : db.requests[r].pc = "done"
    /\ \E id \in LevelIds :
           /\ Cardinality(completedWith(id)) = 2
           /\ orZero(db.missions[id]) = orZero(db.before[id]) + 1

\* Requests that do not overlap are all counted: a request that found the
\* documents only after every earlier request was done.
C27_CountedInTurn ==
    \A r \in 1..Len(db.requests), id \in LevelIds :
        (db.requests[r].pc = "done" /\ Len(db.requests) = 1) =>
            orZero(db.missions[id])
                = orZero(db.before[id]) + Cardinality(completedWith(id))

(* ----------------------------- POST /api/level/upload --------------------- *)

\* C28: an upload request without a valid token is never processed, never
\* stored in ongoingUploads, and is answered with 401.
C28_UploadNeedsToken ==
    \A r \in 1..Len(api.requests) :
        (api.requests[r].path = "upload" /\ ~api.requests[r].validToken) =>
            /\ api.requests[r].pc \in {"authorize", "sent"}
            /\ r \notin api.ongoingUploads
            /\ api.requests[r].pc = "sent" => api.requests[r].status = 401

\* The submit handler, which takes the doc field, answers 401 without a valid token.
C28_SubmitNeedsToken ==
    \A r \in 1..Len(api.requests) :
        (api.requests[r].path = "submit" /\ ~api.requests[r].validToken) =>
            /\ api.requests[r].pc \in {"authorize", "sent"}
            /\ api.requests[r].pc = "sent" => api.requests[r].status = 401

\* An upload without a valid token is stored in ongoingUploads and answered with success.
C28_StoredWithoutToken ==
    \E r \in 1..Len(api.requests) :
        /\ api.requests[r].path = "upload"
        /\ ~api.requests[r].validToken
        /\ r \in api.ongoingUploads
        /\ api.requests[r].status = 200
====
